---- MODULE Spec2Model ----
(***************************************************************************)
(* A model of the AWS Pod EIP controller: the informer's event filter, the *)
(* rate-limited work queue, the workers, the reconciler (handler) with its *)
(* calls into the EC2 gateway, and the cloud's Elastic IP state.           *)
(*                                                                         *)
(* Every cloud call and every cluster call is one atomic step of the       *)
(* worker that makes it; a call either succeeds or returns an error.       *)
(***************************************************************************)
EXTENDS Integers, Sequences, FiniteSets, TLC

(***************************************************************************)
(* Program constants and the bounds of the model.                          *)
(***************************************************************************)
maxQueueRetries == 3

\* goroutines that process items at the same time
NumWorkers == 2

\* addresses the account may still allocate (the cloud's address limit)
MaxAlloc == 2

\* informer events counted for testKey in the queue specification
MaxEvents == 2

\* annotation changes and deletions of Pods
MaxPodChanges == 1

\* cloud and cluster calls that fail for a reason outside the model
MaxFaults == 1

Keys == {"default/test-pod", "default/other-pod"}

testKey == "default/test-pod"

Workers == 1..NumWorkers

PodEIPAnnotationValueAuto == "auto"

PodEIPAnnotationValueFixedTag == "fixed-tag"

PodEIPAnnotationValueFixedTagValue == "fixed-tag-value"

\* the value the event filter compares the type annotation with
PodEIPAnnotationValue == "auto"

ValidPECType(pecType) ==
    \/ pecType = PodEIPAnnotationValueAuto
    \/ pecType = PodEIPAnnotationValueFixedTag
    \/ pecType = PodEIPAnnotationValueFixedTagValue

\* the private IP a Pod gets, and the interface that carries it
PodIP(k) == IF k = "default/test-pod" THEN "10.0.0.1" ELSE "10.0.0.2"

EniOf(ip) == IF ip = "10.0.0.1" THEN "eni-1" ELSE "eni-2"

(***************************************************************************)
(* Pods.  ann holds the controller's annotations, labels the controller's  *)
(* labels ("" and 0 stand for an absent entry; pip is the allocation whose *)
(* public address the public-ip label holds).                              *)
(***************************************************************************)
NoLabels == [type |-> "", pip |-> 0, pool |-> "", tag |-> "", tagv |-> ""]

AnnNone == [type |-> "", pool |-> "", tag |-> "", tagv |-> ""]

AnnAuto == [type |-> "auto", pool |-> "", tag |-> "", tagv |-> ""]

AnnFixedTag == [type |-> "fixed-tag", pool |-> "", tag |-> "pool1", tagv |-> ""]

AnnFixedTagValue == [type |-> "fixed-tag-value", pool |-> "", tag |-> "", tagv |-> "pool2"]

NoPod == [exists |-> FALSE, ip |-> "", ann |-> AnnNone, labels |-> NoLabels]

NewPod(k, a, hasIP) ==
    [exists |-> TRUE, ip |-> IF hasIP THEN PodIP(k) ELSE "", ann |-> a, labels |-> NoLabels]

VARIABLES
    pods,       \* the cluster API's Pod objects, by key
    indexer,    \* the informer's in-memory index of them
    wq,         \* the rate-limiting work queue
    workers,    \* the item each worker goroutine processes, and where it is
    eips,       \* the cloud's Elastic IP addresses, by allocation id
    keyLocks,   \* the key-lock registry: the worker holding each key's mutex
    recycler,   \* the recycler's scan
    ops,        \* how many Pod changes and cloud faults have happened
    hist        \* history of testKey: events enqueued, handler calls, failures

vars == <<pods, indexer, wq, workers, eips, keyLocks, recycler, ops, hist>>

(***************************************************************************)
(* The work queue (workqueue.RateLimitingInterface).  queue is the order   *)
(* in which keys are handed out, dirty the keys that need processing,      *)
(* processing the keys handed out and not yet done, failures the retry     *)
(* count of each key and waiting the keys whose delayed add is pending.    *)
(***************************************************************************)
EmptyQueue ==
    [queue |-> <<>>, dirty |-> {}, processing |-> {},
     failures |-> [k \in Keys |-> 0], waiting |-> {}, shuttingDown |-> FALSE]

QLen(q) == Len(q.queue)

Range(s) == {s[i] : i \in 1..Len(s)}

Occurrences(s, item) == Cardinality({i \in 1..Len(s) : s[i] = item})

\* variants of the queue's operations that drop one of its checks
AddIgnoringProcessing(q, item) ==
    IF q.shuttingDown \/ item \in q.dirty THEN q
    ELSE [q EXCEPT !.dirty = @ \cup {item}, !.queue = Append(@, item)]

AddIgnoringDirty(q, item) ==
    IF q.shuttingDown THEN q
    ELSE IF item \in q.processing THEN [q EXCEPT !.dirty = @ \cup {item}]
    ELSE [q EXCEPT !.dirty = @ \cup {item}, !.queue = Append(@, item)]

DoneDroppingDirty(q, item) == [q EXCEPT !.processing = @ \ {item}]

Add(q, item) ==
    IF q.shuttingDown \/ item \in q.dirty THEN q
    ELSE IF item \in q.processing THEN [q EXCEPT !.dirty = @ \cup {item}]
    ELSE [q EXCEPT !.dirty = @ \cup {item}, !.queue = Append(@, item)]

Get(q) ==
    [q EXCEPT !.queue = Tail(@),
              !.processing = @ \cup {Head(q.queue)},
              !.dirty = @ \ {Head(q.queue)}]

Done(q, item) ==
    IF item \in q.dirty
    THEN [q EXCEPT !.processing = @ \ {item}, !.queue = Append(@, item)]
    ELSE [q EXCEPT !.processing = @ \ {item}]

NumRequeues(q, item) == q.failures[item]

AddRateLimited(q, item) ==
    IF q.shuttingDown THEN [q EXCEPT !.failures[item] = @ + 1]
    ELSE [q EXCEPT !.failures[item] = @ + 1, !.waiting = @ \cup {item}]

\* a variant that keeps the count
ForgetKeepsCount(q, item) == q

Forget(q, item) == [q EXCEPT !.failures[item] = 0]

(***************************************************************************)
(* The event filter of the controller: what each informer callback does    *)
(* to the queue.                                                           *)
(***************************************************************************)
toPod(obj) == [hasEIPAnnotation |-> obj.ann.type = PodEIPAnnotationValue, ip |-> obj.ip]

addFunc(q, key, obj) ==
    IF ~toPod(obj).hasEIPAnnotation \/ toPod(obj).ip = "" THEN q ELSE Add(q, key)

\* a variant that skips an update that changes nothing
updateFuncIfChanged(q, key, oldObj, newObj) ==
    IF toPod(newObj).ip = "" \/ oldObj = newObj THEN q ELSE Add(q, key)

updateFunc(q, key, oldObj, newObj) ==
    IF toPod(newObj).ip = "" THEN q ELSE Add(q, key)

\* a variant that skips the deletion of a Pod without the annotation
deleteFuncIfAnnotated(q, key, obj) ==
    IF ~toPod(obj).hasEIPAnnotation THEN q ELSE Add(q, key)

deleteFunc(q, key, obj) == Add(q, key)

\* The informer stores the object in its index and then calls the callback.
OnAdd(k, obj) ==
    /\ ~indexer[k].exists
    /\ obj.exists
    /\ indexer' = [indexer EXCEPT ![k] = obj]
    /\ wq' = addFunc(wq, k, obj)

OnUpdate(k, obj) ==
    /\ indexer[k].exists
    /\ obj.exists
    /\ indexer' = [indexer EXCEPT ![k] = obj]
    /\ wq' = updateFunc(wq, k, indexer[k], obj)

OnDelete(k) ==
    /\ indexer[k].exists
    /\ indexer' = [indexer EXCEPT ![k] = NoPod]
    /\ wq' = deleteFunc(wq, k, indexer[k])

(***************************************************************************)
(* The workers.  A worker takes a key, reads its retry count, runs the     *)
(* handler, re-queues or forgets the key, and calls Done.                  *)
(***************************************************************************)
NoAddr == [id |-> 0, assoc |-> "", type |-> ""]

Idle ==
    [pc |-> "idle", key |-> "", op |-> "", retries |-> 0, err |-> "",
     view |-> NoPod, addr |-> NoAddr, alloc |-> 0]

Busy(w) == workers[w].pc # "idle"

\* queue.Get and queue.NumRequeues
processNextItem(w) ==
    /\ workers[w].pc = "idle"
    /\ \A v \in Workers : v < w => Busy(v)
    /\ QLen(wq) > 0
    /\ wq' = Get(wq)
    /\ workers' = [workers EXCEPT ![w] =
                      [Idle EXCEPT !.pc = "processItem",
                                   !.key = Head(wq.queue),
                                   !.retries = NumRequeues(wq, Head(wq.queue))]]

\* a worker that compares the retry count with <= instead of <
requeueOrForgetOneMore(w) ==
    /\ workers[w].pc = "result"
    /\ wq' = IF workers[w].err # "" /\ workers[w].retries <= maxQueueRetries
             THEN AddRateLimited(wq, workers[w].key)
             ELSE Forget(wq, workers[w].key)
    /\ workers' = [workers EXCEPT ![w].pc = "done"]

\* what the worker does with the handler's result
requeueOrForget(w) ==
    /\ workers[w].pc = "result"
    /\ wq' = IF workers[w].err # "" /\ workers[w].retries < maxQueueRetries
             THEN AddRateLimited(wq, workers[w].key)
             ELSE Forget(wq, workers[w].key)
    /\ workers' = [workers EXCEPT ![w].pc = "done"]

\* the deferred queue.Done
workerDone(w) ==
    /\ workers[w].pc = "done"
    /\ wq' = Done(wq, workers[w].key)
    /\ workers' = [workers EXCEPT ![w] = Idle]

\* the backoff of a re-queued key has passed
delayedAdd(k) ==
    /\ k \in wq.waiting
    /\ wq' = Add([wq EXCEPT !.waiting = @ \ {k}], k)

(***************************************************************************)
(* SpecQ: the controller and its workers around a handler that may fail    *)
(* on any call (the unit tests' HandlerMock).  hist counts, for testKey,   *)
(* the events whose callback called queue.Add and the handler's calls.     *)
(***************************************************************************)
NoHist == [events |-> 0, calls |-> 0, allFailed |-> TRUE]

CountEvent(k, enqueues) ==
    IF k = testKey /\ enqueues
    THEN /\ hist.events < MaxEvents
         /\ hist' = [hist EXCEPT !.events = @ + 1]
    ELSE UNCHANGED hist

\* the objects the informer delivers: for testKey with and without the
\* annotation and the IP, for the other keys an annotated Pod with its IP
TestPods(k) ==
    IF k = testKey
    THEN {NewPod(k, AnnAuto, TRUE), NewPod(k, AnnNone, TRUE), NewPod(k, AnnAuto, FALSE)}
    ELSE {NewPod(k, AnnAuto, TRUE)}

cloudVars == <<eips, keyLocks, recycler, ops>>

InitQ ==
    /\ pods = [k \in Keys |-> NoPod]
    /\ indexer = [k \in Keys |-> NoPod]
    /\ wq = EmptyQueue
    /\ workers = [w \in Workers |-> Idle]
    /\ eips = <<>>
    /\ keyLocks = <<>>
    /\ recycler = <<>>
    /\ ops = <<>>
    /\ hist = NoHist

QAddEvent(k, obj) ==
    /\ OnAdd(k, obj)
    /\ CountEvent(k, addFunc(EmptyQueue, k, obj) # EmptyQueue)
    /\ UNCHANGED <<pods, workers, cloudVars>>

QUpdateEvent(k, obj) ==
    /\ OnUpdate(k, obj)
    /\ CountEvent(k, updateFunc(EmptyQueue, k, indexer[k], obj) # EmptyQueue)
    /\ UNCHANGED <<pods, workers, cloudVars>>

QDeleteEvent(k) ==
    /\ OnDelete(k)
    /\ CountEvent(k, deleteFunc(EmptyQueue, k, indexer[k]) # EmptyQueue)
    /\ UNCHANGED <<pods, workers, cloudVars>>

QGet(w) ==
    processNextItem(w) /\ UNCHANGED <<pods, indexer, cloudVars, hist>>

\* processItem with a mocked handler: Delete when the key is not in the
\* index, AddOrUpdate otherwise; the mock returns an error or nil.
QHandler(w, fails) ==
    /\ workers[w].pc = "processItem"
    /\ workers' = [workers EXCEPT ![w].pc = "result",
                                  ![w].op = IF indexer[workers[w].key].exists
                                            THEN "AddOrUpdate" ELSE "Delete",
                                  ![w].err = IF fails THEN "test delete failure" ELSE ""]
    /\ hist' = IF workers[w].key = testKey
               THEN [hist EXCEPT !.calls = @ + 1,
                                 !.allFailed = @ /\ fails]
               ELSE hist
    /\ UNCHANGED <<pods, indexer, wq, cloudVars>>

QResult(w) ==
    requeueOrForget(w) /\ UNCHANGED <<pods, indexer, cloudVars, hist>>

QDone(w) ==
    workerDone(w) /\ UNCHANGED <<pods, indexer, cloudVars, hist>>

QDelayedAdd(k) ==
    delayedAdd(k) /\ UNCHANGED <<pods, indexer, workers, cloudVars, hist>>

NextQ ==
    \/ \E k \in Keys : \E obj \in TestPods(k) : QAddEvent(k, obj)
    \/ \E k \in Keys : \E obj \in TestPods(k) : QUpdateEvent(k, obj)
    \/ \E k \in Keys : QDeleteEvent(k)
    \/ \E w \in Workers : QGet(w)
    \/ \E w \in Workers : \E fails \in BOOLEAN : QHandler(w, fails)
    \/ \E w \in Workers : QResult(w)
    \/ \E w \in Workers : QDone(w)
    \/ \E k \in Keys : QDelayedAdd(k)

SpecQ == InitQ /\ [][NextQ]_vars

(***************************************************************************)
(* The cloud's Elastic IP addresses.  Address 1 is pre-created with the    *)
(* tag key pool1, address 2 with the tag pool2 = <key of the other Pod>;   *)
(* address 3 was allocated by the service package's AllocateAddress for a  *)
(* Pod that is gone; the addresses after them are the ones the account can *)
(* still allocate.  type, cluster and pod are the controller's three tags  *)
(* ("" is absent), legacy tells that the address carries the service       *)
(* package's type = auto and cluster-name tags, assoc is the private IP    *)
(* the address is associated with.                                         *)
(***************************************************************************)
clusterName == "C"

PoolIds == {1, 2}

LegacyIds == {3}

AutoIds == 4..(3 + MaxAlloc)

EipIds == PoolIds \cup LegacyIds \cup AutoIds

\* the private IP of the Pod that is gone
lostIP == "10.0.0.9"

UserTagKey(id) == IF id = 1 THEN "pool1" ELSE IF id = 2 THEN "pool2" ELSE ""

UserTagValue(id) == IF id = 2 THEN "default/other-pod" ELSE ""

NoTags == [type |-> "", cluster |-> "", pod |-> ""]

InitEip(id) ==
    [state |-> IF id \in AutoIds THEN "none" ELSE "allocated",
     tags |-> NoTags,
     legacy |-> id \in LegacyIds,
     assoc |-> IF id \in LegacyIds THEN lostIP ELSE ""]

Allocated(id) == eips[id].state = "allocated"

Min(S) == CHOOSE x \in S : \A y \in S : x <= y

(***************************************************************************)
(* Spec: the controller against the cluster and the cloud.                 *)
(***************************************************************************)
\* the annotations a Pod is created with, and those it can be changed to
CreateAnns(k) == IF k = testKey THEN {AnnAuto, AnnFixedTag} ELSE {AnnFixedTag}

PodAnns(k) == IF k = testKey THEN {AnnAuto, AnnFixedTag} ELSE {AnnFixedTag, AnnFixedTagValue}

NoScan == [pc |-> "list"]

Init ==
    /\ pods = [k \in Keys |-> NoPod]
    /\ indexer = [k \in Keys |-> NoPod]
    /\ wq = EmptyQueue
    /\ workers = [w \in Workers |-> Idle]
    /\ eips = [id \in EipIds |-> InitEip(id)]
    /\ keyLocks = [t \in {"pool1"} |-> 0]
    /\ recycler = NoScan
    /\ ops = [created |-> {}, changes |-> 0, edited |-> FALSE, faults |-> 0]
    /\ hist = NoHist

\* a call fails for an outside reason (timeout, throttling, API error)
Fault(fail) ==
    IF fail
    THEN /\ ops.faults < MaxFaults
         /\ ops' = [ops EXCEPT !.faults = @ + 1]
    ELSE UNCHANGED ops

\* ---- the cluster: users create, change and delete Pods; the kubelet
\* reports the Pod's IP.  The informer has seen the Pod's last change, and
\* a key is used for one Pod.
CreatePod(k, a) ==
    /\ ~pods[k].exists
    /\ indexer[k] = pods[k]
    /\ k \notin ops.created
    /\ ops' = [ops EXCEPT !.created = @ \cup {k}]
    /\ pods' = [pods EXCEPT ![k] = NewPod(k, a, FALSE)]
    /\ UNCHANGED <<indexer, wq, workers, eips, keyLocks, recycler, hist>>

AssignPodIP(k) ==
    /\ pods[k].exists
    /\ pods[k].ip = ""
    /\ indexer[k] = pods[k]
    /\ pods' = [pods EXCEPT ![k].ip = PodIP(k)]
    /\ UNCHANGED <<indexer, wq, workers, eips, keyLocks, recycler, ops, hist>>

ChangePodAnnotations(k, a) ==
    /\ pods[k].exists
    /\ pods[k].ann # a
    /\ indexer[k] = pods[k]
    /\ ops.changes < MaxPodChanges
    /\ ops' = [ops EXCEPT !.changes = @ + 1, !.edited = TRUE]
    /\ pods' = [pods EXCEPT ![k].ann = a]
    /\ UNCHANGED <<indexer, wq, workers, eips, keyLocks, recycler, hist>>

DeletePod(k) ==
    /\ pods[k].exists
    /\ indexer[k] = pods[k]
    /\ ops.changes < MaxPodChanges
    /\ ops' = [ops EXCEPT !.changes = @ + 1, !.edited = TRUE]
    /\ pods' = [pods EXCEPT ![k] = NoPod]
    /\ UNCHANGED <<indexer, wq, workers, eips, keyLocks, recycler, hist>>

\* the kubelet updates a part of the Pod's status that the controller does
\* not read; the informer calls updateFunc with the Pod
UpdatePodStatus(k) ==
    /\ pods[k].exists
    /\ pods[k].ip # ""
    /\ indexer[k] = pods[k]
    /\ ops.changes < MaxPodChanges
    /\ ops' = [ops EXCEPT !.changes = @ + 1]
    /\ wq' = updateFunc(wq, k, indexer[k], pods[k])
    /\ UNCHANGED <<pods, indexer, workers, eips, keyLocks, recycler, hist>>

\* ---- the informer delivers the Pod's change to the callbacks
InformerAdd(k) ==
    /\ indexer[k] # pods[k]
    /\ OnAdd(k, pods[k])
    /\ UNCHANGED <<pods, workers, eips, keyLocks, recycler, ops, hist>>

InformerUpdate(k) ==
    /\ indexer[k] # pods[k]
    /\ OnUpdate(k, pods[k])
    /\ UNCHANGED <<pods, workers, eips, keyLocks, recycler, ops, hist>>

InformerDelete(k) ==
    /\ indexer[k] # pods[k]
    /\ ~pods[k].exists
    /\ OnDelete(k)
    /\ UNCHANGED <<pods, workers, eips, keyLocks, recycler, ops, hist>>

\* ---- the worker
\* the handler returns e to the worker
Return(w, e) == [workers EXCEPT ![w].pc = "result", ![w].err = e]

Goto(w, pc) == [workers EXCEPT ![w].pc = pc]

\* a variant that finds a change in every Pod
hasChangeAlways(event) == TRUE

hasChange(event) ==
    \/ event.ann.type # event.labels.type
    \/ event.ann.type = PodEIPAnnotationValueAuto /\ event.ann.pool # event.labels.pool
    \/ event.ann.type = PodEIPAnnotationValueFixedTag /\ event.ann.tag # event.labels.tag
    \/ event.ann.type = PodEIPAnnotationValueFixedTagValue /\ event.ann.tagv # event.labels.tagv

\* Handler.Delete: DisassociateAddress with an event that has no labels
Delete(item) == [item EXCEPT !.pc = "describePodAddresses", !.op = "Delete"]

\* a variant of AddOrUpdate that does not look at the Pod's IP
AddOrUpdateWithoutIP(item, pod) ==
    IF ~hasChange(pod)
    THEN [item EXCEPT !.pc = "result", !.op = "AddOrUpdate"]
    ELSE [item EXCEPT !.pc = "describePodAddresses", !.op = "AddOrUpdate", !.view = pod]

\* Handler.AddOrUpdate returns at once for a Pod without IP or without
\* change
AddOrUpdate(item, pod) ==
    IF pod.ip = "" \/ ~hasChange(pod)
    THEN [item EXCEPT !.pc = "result", !.op = "AddOrUpdate"]
    ELSE [item EXCEPT !.pc = "describePodAddresses", !.op = "AddOrUpdate", !.view = pod]

\* processItem reads the index and calls Delete or AddOrUpdate; item is the
\* worker's record after queue.Get
processItem(item) ==
    LET obj == indexer[item.key] IN
    IF ~obj.exists THEN Delete(item) ELSE AddOrUpdate(item, obj)

\* queue.Get, queue.NumRequeues and processItem up to the first cloud call
WorkerGet(w) ==
    /\ workers[w].pc = "idle"
    /\ \A v \in Workers : v < w => Busy(v)
    /\ QLen(wq) > 0
    /\ wq' = Get(wq)
    /\ workers' = [workers EXCEPT ![w] =
                      processItem([Idle EXCEPT !.key = Head(wq.queue),
                                               !.retries = NumRequeues(wq, Head(wq.queue))])]
    /\ UNCHANGED <<pods, indexer, eips, keyLocks, recycler, ops, hist>>

\* a variant that finds no address of the Pod
PodAddressesNone(podKey) == {}

\* the addresses describePodAddresses returns for a Pod key
PodAddresses(podKey) ==
    {id \in EipIds : /\ Allocated(id)
                     /\ eips[id].tags.pod = podKey
                     /\ eips[id].tags.cluster = clusterName
                     /\ eips[id].assoc # ""}

\* EC2Client.DisassociateAddress, first call: addrs[0] is any of the
\* addresses found
describePodAddresses(w, fail) ==
    /\ workers[w].pc = "describePodAddresses"
    /\ Fault(fail)
    /\ IF fail
       THEN workers' = Return(w, "describe address")
       ELSE IF PodAddresses(workers[w].key) = {}
       THEN workers' = Goto(w, "removeLabels")
       ELSE \E id \in PodAddresses(workers[w].key) :
               workers' = [workers EXCEPT
                              ![w].pc = "disassociateAddress",
                              ![w].addr = [id |-> id, assoc |-> eips[id].assoc,
                                           type |-> eips[id].tags.type]]
    /\ UNCHANGED <<pods, indexer, wq, eips, keyLocks, recycler, hist>>

\* a variant that releases the address whatever its type tag is
afterDisassociateAlwaysRelease(tagType) ==
    IF tagType = "" THEN "removeLabels" ELSE "releaseAddress"

\* a variant that leaves the address as it is after the disassociation
afterDisassociateOnly(tagType) == "removeLabels"

\* where DisassociateAddress goes after the disassociation, by the type tag
\* of the address it described
afterDisassociate(tagType) ==
    IF tagType = PodEIPAnnotationValueAuto THEN "releaseAddress"
    ELSE IF tagType \in {PodEIPAnnotationValueFixedTag, PodEIPAnnotationValueFixedTagValue}
    THEN "deleteTag"
    ELSE "removeLabels"

\* a variant that goes on to the release or the tag removal when the call
\* fails
disassociateAddressThenRelease(w, fail) ==
    /\ workers[w].pc = "disassociateAddress"
    /\ Fault(fail)
    /\ LET a == workers[w].addr IN
       /\ eips' = IF fail \/ ~Allocated(a.id) \/ eips[a.id].assoc # a.assoc
                  THEN eips
                  ELSE [eips EXCEPT ![a.id].assoc = ""]
       /\ workers' = Goto(w, afterDisassociate(a.type))
    /\ UNCHANGED <<pods, indexer, wq, keyLocks, recycler, hist>>

\* a variant that goes on to the acquisition when the call fails
disassociateAddressThenAcquire(w, fail) ==
    /\ workers[w].pc = "disassociateAddress"
    /\ Fault(fail)
    /\ LET a == workers[w].addr IN
       IF fail \/ ~Allocated(a.id) \/ eips[a.id].assoc # a.assoc
       THEN /\ workers' = Goto(w, "getNetworkInterface")
            /\ UNCHANGED eips
       ELSE /\ eips' = [eips EXCEPT ![a.id].assoc = ""]
            /\ workers' = Goto(w, afterDisassociate(a.type))
    /\ UNCHANGED <<pods, indexer, wq, keyLocks, recycler, hist>>

disassociateAddress(w, fail) ==
    /\ workers[w].pc = "disassociateAddress"
    /\ Fault(fail)
    /\ LET a == workers[w].addr IN
       IF fail \/ ~Allocated(a.id) \/ eips[a.id].assoc # a.assoc
       THEN /\ workers' = Return(w, "disassociate address")
            /\ UNCHANGED eips
       ELSE /\ eips' = [eips EXCEPT ![a.id].assoc = ""]
            /\ workers' = Goto(w, afterDisassociate(a.type))
    /\ UNCHANGED <<pods, indexer, wq, keyLocks, recycler, hist>>

releaseAddress(w, fail) ==
    /\ workers[w].pc = "releaseAddress"
    /\ Fault(fail)
    /\ LET a == workers[w].addr IN
       IF fail \/ ~Allocated(a.id) \/ eips[a.id].assoc # ""
       THEN /\ workers' = Return(w, "release address")
            /\ UNCHANGED eips
       ELSE /\ eips' = [eips EXCEPT ![a.id].state = "released"]
            /\ workers' = Goto(w, "removeLabels")
    /\ UNCHANGED <<pods, indexer, wq, keyLocks, recycler, hist>>

\* a variant that leaves the controller tags on the address
deleteTagKeepsTags(w, fail) ==
    /\ workers[w].pc = "deleteTag"
    /\ Fault(fail)
    /\ workers' = IF fail THEN Return(w, "delete-tags") ELSE Goto(w, "removeLabels")
    /\ UNCHANGED <<pods, indexer, wq, eips, keyLocks, recycler, hist>>

deleteTag(w, fail) ==
    /\ workers[w].pc = "deleteTag"
    /\ Fault(fail)
    /\ LET a == workers[w].addr IN
       IF fail \/ ~Allocated(a.id)
       THEN /\ workers' = Return(w, "delete-tags")
            /\ UNCHANGED eips
       ELSE /\ eips' = [eips EXCEPT ![a.id].tags = NoTags]
            /\ workers' = Goto(w, "removeLabels")
    /\ UNCHANGED <<pods, indexer, wq, keyLocks, recycler, hist>>

\* Handler.DisassociateAddress, after the cloud call: one JSON patch removes
\* the labels the event carries; the patch fails when the Pod is gone or
\* does not carry a label it removes.  Delete returns here; AddOrUpdate
\* goes on to Handler.AssociateAddress, which returns for a Pod without a
\* valid type annotation.
LabelsAfterRemove(cur, seen) ==
    [type |-> IF seen.type # "" THEN "" ELSE cur.type,
     pip  |-> IF seen.pip # 0 THEN 0 ELSE cur.pip,
     pool |-> IF seen.pool # "" THEN "" ELSE cur.pool,
     tag  |-> IF seen.tag # "" THEN "" ELSE cur.tag,
     tagv |-> IF seen.tagv # "" THEN "" ELSE cur.tagv]

CanRemove(cur, seen) ==
    /\ seen.type # "" => cur.type # ""
    /\ seen.pip # 0 => cur.pip # 0
    /\ seen.pool # "" => cur.pool # ""
    /\ seen.tag # "" => cur.tag # ""
    /\ seen.tagv # "" => cur.tagv # ""

afterRemoveLabels(w) ==
    IF workers[w].op = "Delete" \/ ~ValidPECType(workers[w].view.ann.type)
    THEN Return(w, "")
    ELSE Goto(w, "getNetworkInterface")

removeLabels(w, fail) ==
    /\ workers[w].pc = "removeLabels"
    /\ LET k == workers[w].key
           seen == workers[w].view.labels
       IN IF seen = NoLabels
          THEN /\ ~fail
               /\ workers' = afterRemoveLabels(w)
               /\ UNCHANGED <<pods, ops>>
          ELSE /\ Fault(fail)
               /\ IF fail \/ ~pods[k].exists \/ ~CanRemove(pods[k].labels, seen)
                  THEN /\ workers' = Return(w, "patch pod")
                       /\ UNCHANGED pods
                  ELSE /\ pods' = [pods EXCEPT ![k].labels = LabelsAfterRemove(@, seen)]
                       /\ workers' = afterRemoveLabels(w)
    /\ UNCHANGED <<indexer, wq, eips, keyLocks, recycler, hist>>

\* EC2Client.AssociateAddress, first call; then by the type annotation
afterNetworkInterface(pecType) ==
    IF pecType = PodEIPAnnotationValueAuto THEN "allocateAddress"
    ELSE IF pecType = PodEIPAnnotationValueFixedTag THEN "keyLocksLock"
    ELSE "getTagValueAddress"

\* a variant that goes on without the interface
getNetworkInterfaceIgnoringError(w, fail) ==
    /\ workers[w].pc = "getNetworkInterface"
    /\ Fault(fail)
    /\ workers' = Goto(w, afterNetworkInterface(workers[w].view.ann.type))
    /\ UNCHANGED <<pods, indexer, wq, eips, keyLocks, recycler, hist>>

getNetworkInterface(w, fail) ==
    /\ workers[w].pc = "getNetworkInterface"
    /\ Fault(fail)
    /\ workers' = IF fail THEN Return(w, "describe-network-interfaces")
                  ELSE Goto(w, afterNetworkInterface(workers[w].view.ann.type))
    /\ UNCHANGED <<pods, indexer, wq, eips, keyLocks, recycler, hist>>

\* the tags allocateAddress and createTag write
PodTags(podKey, pecType) == [type |-> pecType, cluster |-> clusterName, pod |-> podKey]

Unallocated == {id \in AutoIds : eips[id].state = "none"}

\* fails when the account has reached its address limit
allocateAddress(w, fail) ==
    /\ workers[w].pc = "allocateAddress"
    /\ Fault(fail)
    /\ IF fail \/ Unallocated = {}
       THEN /\ workers' = Return(w, "allocate address")
            /\ UNCHANGED eips
       ELSE LET id == Min(Unallocated) IN
            /\ eips' = [eips EXCEPT ![id] =
                           [state |-> "allocated", assoc |-> "", legacy |-> FALSE,
                            tags |-> PodTags(workers[w].key, PodEIPAnnotationValueAuto)]]
            /\ workers' = [workers EXCEPT ![w].pc = "associateAddress", ![w].alloc = id]
    /\ UNCHANGED <<pods, indexer, wq, keyLocks, recycler, hist>>

\* keyLocks.Lock(TagKey) blocks until the key's mutex is free
keyLocksLock(w) ==
    /\ workers[w].pc = "keyLocksLock"
    /\ keyLocks[workers[w].view.ann.tag] = 0
    /\ keyLocks' = [keyLocks EXCEPT ![workers[w].view.ann.tag] = w]
    /\ workers' = Goto(w, "getTagAddress")
    /\ UNCHANGED <<pods, indexer, wq, eips, recycler, ops, hist>>

\* the deferred keyLocks.Unlock(TagKey) when EC2Client.AssociateAddress
\* returns in fixed-tag mode
Unlocked(w) ==
    IF workers[w].view.ann.type = PodEIPAnnotationValueFixedTag
    THEN [keyLocks EXCEPT ![workers[w].view.ann.tag] = 0]
    ELSE keyLocks

TagKeyAddresses(tagKey) == {id \in EipIds : Allocated(id) /\ UserTagKey(id) = tagKey}

getTagAddress(w, fail) ==
    /\ workers[w].pc = "getTagAddress"
    /\ Fault(fail)
    /\ LET found == TagKeyAddresses(workers[w].view.ann.tag)
           free == {id \in found : eips[id].assoc = ""}
       IN IF fail
          THEN workers' = Return(w, "get tag address fail") /\ keyLocks' = Unlocked(w)
          ELSE IF found = {}
          THEN workers' = Return(w, "no address found for tag key") /\ keyLocks' = Unlocked(w)
          ELSE IF free = {}
          THEN /\ workers' = Return(w, "no address found for tag key and not attached")
               /\ keyLocks' = Unlocked(w)
          ELSE /\ workers' = [workers EXCEPT ![w].pc = "createTag", ![w].alloc = Min(free)]
               /\ UNCHANGED keyLocks
    /\ UNCHANGED <<pods, indexer, wq, eips, recycler, hist>>

TagValueAddresses(tagKey, value) ==
    {id \in EipIds : Allocated(id) /\ UserTagKey(id) = tagKey /\ UserTagValue(id) = value}

getTagValueAddress(w, fail) ==
    /\ workers[w].pc = "getTagValueAddress"
    /\ Fault(fail)
    /\ LET found == TagValueAddresses(workers[w].view.ann.tagv, workers[w].key)
       IN IF fail
          THEN workers' = Return(w, "get tag-value address fail")
          ELSE IF found = {}
          THEN workers' = Return(w, "no address found for tag-value key")
          ELSE workers' = [workers EXCEPT ![w].pc = "createTag", ![w].alloc = Min(found)]
    /\ UNCHANGED <<pods, indexer, wq, eips, keyLocks, recycler, hist>>

createTag(w, fail) ==
    /\ workers[w].pc = "createTag"
    /\ Fault(fail)
    /\ IF fail \/ ~Allocated(workers[w].alloc)
       THEN /\ workers' = Return(w, "create-tags")
            /\ keyLocks' = Unlocked(w)
            /\ UNCHANGED eips
       ELSE /\ eips' = [eips EXCEPT ![workers[w].alloc].tags =
                           PodTags(workers[w].key, workers[w].view.ann.type)]
            /\ workers' = Goto(w, "associateAddress")
            /\ UNCHANGED keyLocks
    /\ UNCHANGED <<pods, indexer, wq, recycler, hist>>

\* the association of an address that is associated elsewhere moves it
associateAddress(w, fail) ==
    /\ workers[w].pc = "associateAddress"
    /\ Fault(fail)
    /\ IF fail \/ ~Allocated(workers[w].alloc)
       THEN /\ workers' = Return(w, "associate address")
            /\ UNCHANGED eips
       ELSE /\ eips' = [eips EXCEPT ![workers[w].alloc].assoc = workers[w].view.ip]
            /\ workers' = Goto(w, "addLabels")
    /\ keyLocks' = Unlocked(w)
    /\ UNCHANGED <<pods, indexer, wq, recycler, hist>>

\* a variant whose patch leaves out the type label
LabelsAfterAddWithoutType(cur, ann, publicIP) ==
    [type |-> cur.type,
     pip  |-> publicIP,
     pool |-> IF ann.type = PodEIPAnnotationValueAuto /\ ann.pool # "" THEN ann.pool ELSE cur.pool,
     tag  |-> IF ann.type = PodEIPAnnotationValueFixedTag /\ ann.tag # "" THEN ann.tag ELSE cur.tag,
     tagv |-> IF ann.type = PodEIPAnnotationValueFixedTagValue /\ ann.tagv # ""
              THEN ann.tagv ELSE cur.tagv]

\* Handler.AssociateAddress, after the cloud call: one JSON patch adds the
\* labels
LabelsAfterAdd(cur, ann, publicIP) ==
    [type |-> ann.type,
     pip  |-> publicIP,
     pool |-> IF ann.type = PodEIPAnnotationValueAuto /\ ann.pool # "" THEN ann.pool ELSE cur.pool,
     tag  |-> IF ann.type = PodEIPAnnotationValueFixedTag /\ ann.tag # "" THEN ann.tag ELSE cur.tag,
     tagv |-> IF ann.type = PodEIPAnnotationValueFixedTagValue /\ ann.tagv # ""
              THEN ann.tagv ELSE cur.tagv]

addLabels(w, fail) ==
    /\ workers[w].pc = "addLabels"
    /\ Fault(fail)
    /\ LET k == workers[w].key IN
       IF fail \/ ~pods[k].exists
       THEN /\ workers' = Return(w, "patch pod")
            /\ UNCHANGED pods
       ELSE /\ pods' = [pods EXCEPT ![k].labels =
                           LabelsAfterAdd(@, workers[w].view.ann, workers[w].alloc)]
            /\ workers' = Return(w, "")
    /\ UNCHANGED <<indexer, wq, eips, keyLocks, recycler, hist>>

\* the worker re-queues or forgets the key and, returning, calls Done
WorkerDone(w) ==
    /\ workers[w].pc = "result"
    /\ wq' = Done(IF workers[w].err # "" /\ workers[w].retries < maxQueueRetries
                  THEN AddRateLimited(wq, workers[w].key)
                  ELSE Forget(wq, workers[w].key),
                  workers[w].key)
    /\ workers' = [workers EXCEPT ![w] = Idle]
    /\ UNCHANGED <<pods, indexer, eips, keyLocks, recycler, ops, hist>>

DelayedAdd(k) ==
    delayedAdd(k) /\ UNCHANGED <<pods, indexer, workers, eips, keyLocks, recycler, ops, hist>>

\* the cluster's users and the kubelet
Cluster ==
    \/ \E k \in Keys : \E a \in CreateAnns(k) : CreatePod(k, a)
    \/ \E k \in Keys : AssignPodIP(k)
    \/ \E k \in Keys : \E a \in PodAnns(k) : ChangePodAnnotations(k, a)
    \/ \E k \in Keys : DeletePod(k)
    \/ \E k \in Keys : UpdatePodStatus(k)

Informer ==
    \/ \E k \in Keys : InformerAdd(k)
    \/ \E k \in Keys : InformerUpdate(k)
    \/ \E k \in Keys : InformerDelete(k)

Worker ==
    \/ \E w \in Workers : WorkerGet(w)
    \/ \E w \in Workers : \E fail \in BOOLEAN : describePodAddresses(w, fail)
    \/ \E w \in Workers : \E fail \in BOOLEAN : disassociateAddress(w, fail)
    \/ \E w \in Workers : \E fail \in BOOLEAN : releaseAddress(w, fail)
    \/ \E w \in Workers : \E fail \in BOOLEAN : deleteTag(w, fail)
    \/ \E w \in Workers : \E fail \in BOOLEAN : removeLabels(w, fail)
    \/ \E w \in Workers : \E fail \in BOOLEAN : getNetworkInterface(w, fail)
    \/ \E w \in Workers : \E fail \in BOOLEAN : allocateAddress(w, fail)
    \/ \E w \in Workers : keyLocksLock(w)
    \/ \E w \in Workers : \E fail \in BOOLEAN : getTagAddress(w, fail)
    \/ \E w \in Workers : \E fail \in BOOLEAN : getTagValueAddress(w, fail)
    \/ \E w \in Workers : \E fail \in BOOLEAN : createTag(w, fail)
    \/ \E w \in Workers : \E fail \in BOOLEAN : associateAddress(w, fail)
    \/ \E w \in Workers : \E fail \in BOOLEAN : addLabels(w, fail)
    \/ \E w \in Workers : WorkerDone(w)
    \/ \E k \in Keys : DelayedAdd(k)

Next == Cluster \/ Informer \/ Worker

Spec == Init /\ [][Next]_vars

(***************************************************************************)
(* SpecR: the controller together with the recycler of the service         *)
(* package.  One pass of the recycler's loop lists the Pods, describes the *)
(* addresses that carry the service package's type = auto and cluster-name *)
(* tags, and disassociates and releases those whose private IP no listed   *)
(* Pod has.  The pass reads the Pods once and touches only addresses that  *)
(* no worker reads or writes, so it is taken as one step.  In this         *)
(* specification the informer delivers a change before anything else       *)
(* happens.                                                                *)
(***************************************************************************)
RecycleFaults == {"", "list", "describe", "disassociate", "release"}

\* the addresses DescribeAddresses returns under the recycler's tag filter
UsedAddresses == {id \in EipIds : Allocated(id) /\ eips[id].legacy}

\* the loop body: an address whose IP a listed Pod has is left alone;
\* ReleaseAddress is called whether or not DisassociateAddress succeeded,
\* and fails on an address that is still associated
RecycleAddress(id, IPList, fault) ==
    IF eips[id].assoc \in IPList THEN eips[id]
    ELSE IF fault = "disassociate" THEN eips[id]
    ELSE IF fault = "release" THEN [eips[id] EXCEPT !.assoc = ""]
    ELSE [eips[id] EXCEPT !.assoc = "", !.state = "released"]

\* the IPs of the Pods the recycler lists
LiveIPs == {pods[k].ip : k \in {x \in Keys : pods[x].exists /\ pods[x].ip # ""}}

\* DescribeUsedAddresses dereferences the association id and the private IP
\* of every address it finds: an address without association ends the
\* process with a nil pointer dereference
RecyclePass(fault) ==
    /\ recycler.pc = "list"
    /\ Fault(fault # "")
    /\ LET IPList == LiveIPs
       IN  IF fault \in {"list", "describe"}
           THEN UNCHANGED <<eips, recycler>>
           ELSE IF \E id \in UsedAddresses : eips[id].assoc = ""
           THEN /\ fault = ""
                /\ recycler' = [recycler EXCEPT !.pc = "panic"]
                /\ UNCHANGED eips
           ELSE /\ fault # "" => UsedAddresses # {}
                /\ eips' = [id \in EipIds |->
                               IF id \in UsedAddresses
                               THEN RecycleAddress(id, IPList, fault)
                               ELSE eips[id]]
                /\ UNCHANGED recycler
    /\ UNCHANGED <<pods, indexer, wq, workers, keyLocks, hist>>

\* the informer has delivered every change
Delivered == indexer = pods

NextR ==
    \/ \E k \in Keys : InformerAdd(k)
    \/ \E k \in Keys : InformerUpdate(k)
    \/ \E k \in Keys : InformerDelete(k)
    \/ \E k \in Keys : \E a \in CreateAnns(k) : Delivered /\ CreatePod(k, a)
    \/ \E k \in Keys : Delivered /\ AssignPodIP(k)
    \/ \E k \in Keys : \E a \in PodAnns(k) : Delivered /\ ChangePodAnnotations(k, a)
    \/ \E k \in Keys : Delivered /\ DeletePod(k)
    \/ \E k \in Keys : Delivered /\ UpdatePodStatus(k)
    \/ \E w \in Workers : Delivered /\ WorkerGet(w)
    \/ \E w \in Workers : \E fail \in BOOLEAN : Delivered /\ describePodAddresses(w, fail)
    \/ \E w \in Workers : \E fail \in BOOLEAN : Delivered /\ disassociateAddress(w, fail)
    \/ \E w \in Workers : \E fail \in BOOLEAN : Delivered /\ releaseAddress(w, fail)
    \/ \E w \in Workers : \E fail \in BOOLEAN : Delivered /\ deleteTag(w, fail)
    \/ \E w \in Workers : \E fail \in BOOLEAN : Delivered /\ removeLabels(w, fail)
    \/ \E w \in Workers : \E fail \in BOOLEAN : Delivered /\ getNetworkInterface(w, fail)
    \/ \E w \in Workers : \E fail \in BOOLEAN : Delivered /\ allocateAddress(w, fail)
    \/ \E w \in Workers : Delivered /\ keyLocksLock(w)
    \/ \E w \in Workers : \E fail \in BOOLEAN : Delivered /\ getTagAddress(w, fail)
    \/ \E w \in Workers : \E fail \in BOOLEAN : Delivered /\ getTagValueAddress(w, fail)
    \/ \E w \in Workers : \E fail \in BOOLEAN : Delivered /\ createTag(w, fail)
    \/ \E w \in Workers : \E fail \in BOOLEAN : Delivered /\ associateAddress(w, fail)
    \/ \E w \in Workers : \E fail \in BOOLEAN : Delivered /\ addLabels(w, fail)
    \/ \E w \in Workers : Delivered /\ WorkerDone(w)
    \/ \E k \in Keys : Delivered /\ DelayedAdd(k)
    \/ \E fault \in RecycleFaults : Delivered /\ RecyclePass(fault)

SpecR == Init /\ [][NextR]_vars

(***************************************************************************)
(* SpecL: the controller of the service package, which the recycler belongs *)
(* to.  The informer's callbacks hand every Pod event to the handler, and   *)
(* event.Process attaches an address to a Pod that asks for one and detaches*)
(* it when the Pod is deleted.  The addresses it allocates carry the service*)
(* package's type = auto and cluster-name tags.  The recycler's loop is     *)
(* taken call by call here: list Pods, describe addresses, and for each      *)
(* address disassociate and release.                                        *)
(***************************************************************************)
NoEvent == [pc |-> "idle", key |-> "", PodIP |-> "", AttachIP |-> FALSE,
            allocationID |-> 0, associationID |-> ""]

NoRecycle == [pc |-> "list", IPList |-> {}, addresses |-> {}, cur |-> 0,
              targets |-> {}, failed |-> FALSE]

InitL ==
    /\ pods = [k \in Keys |-> NoPod]
    /\ indexer = [k \in Keys |-> NoPod]
    /\ wq = <<>>
    /\ workers = [w \in Workers |-> NoEvent]
    /\ eips = [id \in EipIds |-> InitEip(id)]
    /\ keyLocks = <<>>
    /\ recycler = NoRecycle
    /\ ops = [created |-> {}, changes |-> 0, edited |-> FALSE, faults |-> 0]
    /\ hist = [k \in Keys |-> "nil"]

\* ---- the cluster, seen through the informer's callbacks; a deleted Pod
\* keeps the IP that its delete event carries
PodAdded(k) ==
    /\ k \notin ops.created
    /\ ops' = [ops EXCEPT !.created = @ \cup {k}]
    /\ pods' = [pods EXCEPT ![k] = NewPod(k, AnnAuto, FALSE)]
    /\ indexer' = pods'
    /\ UNCHANGED <<wq, workers, eips, keyLocks, recycler, hist>>

PodGotIP(k) ==
    /\ pods[k].exists
    /\ pods[k].ip = ""
    /\ pods' = [pods EXCEPT ![k].ip = PodIP(k)]
    /\ indexer' = pods'
    /\ UNCHANGED <<wq, workers, eips, keyLocks, recycler, ops, hist>>

PodDeleted(k) ==
    /\ pods[k].exists
    /\ pods' = [pods EXCEPT ![k].exists = FALSE]
    /\ indexer' = pods'
    /\ UNCHANGED <<wq, workers, eips, keyLocks, recycler, ops, hist>>

\* the attach wish of a Pod event
AttachOf(k) == IF pods[k].exists THEN "attach" ELSE "detach"

\* the handler takes the event of a Pod that has an IP; Process does the
\* address part when there is no saved event or the attach wish differs
HandleEvent(w, k) ==
    /\ workers[w].pc = "idle"
    /\ \A v \in Workers : workers[v].pc # "idle" => workers[v].key # k
    /\ pods[k].ip # ""
    /\ hist[k] # AttachOf(k)
    /\ workers' = [workers EXCEPT ![w] =
                      [NoEvent EXCEPT !.pc = "DescribeAddresses", !.key = k,
                                      !.PodIP = pods[k].ip,
                                      !.AttachIP = pods[k].exists]]
    /\ UNCHANGED <<pods, indexer, wq, eips, keyLocks, recycler, ops, hist>>

\* Process returns: with an error the saved event stays as it was
ProcessReturn(w, ok) == [workers EXCEPT ![w] = NoEvent]

SavedAfter(w, ok) ==
    IF ok
    THEN [hist EXCEPT ![workers[w].key] = IF workers[w].AttachIP THEN "attach" ELSE "detach"]
    ELSE hist

\* the addresses associated with the private IP
AddressesOf(ip) == {id \in EipIds : Allocated(id) /\ eips[id].assoc = ip}

\* DescribeNetworkInterfaces and DescribeAddresses: isAllocated says whether
\* an address is associated with the Pod's IP
DescribeAddresses(w, fail) ==
    /\ workers[w].pc = "DescribeAddresses"
    /\ Fault(fail)
    /\ LET e == workers[w]
           found == AddressesOf(e.PodIP)
       IN  IF fail
           THEN workers' = ProcessReturn(w, FALSE) /\ hist' = SavedAfter(w, FALSE)
           ELSE IF (found # {}) = e.AttachIP
           THEN workers' = ProcessReturn(w, TRUE) /\ hist' = SavedAfter(w, TRUE)
           ELSE IF e.AttachIP
           THEN workers' = [workers EXCEPT ![w].pc = "AllocateAddress"] /\ UNCHANGED hist
           ELSE \E id \in found :
                   /\ workers' = [workers EXCEPT ![w].pc = "DisassociateAddress",
                                                 ![w].allocationID = id,
                                                 ![w].associationID = eips[id].assoc]
                   /\ UNCHANGED hist
    /\ UNCHANGED <<pods, indexer, wq, eips, keyLocks, recycler>>

\* AllocateAddress tags the new address type = auto, cluster-name = C
AllocateAddress(w, fail) ==
    /\ workers[w].pc = "AllocateAddress"
    /\ Fault(fail)
    /\ IF fail \/ Unallocated = {}
       THEN /\ workers' = ProcessReturn(w, FALSE)
            /\ UNCHANGED eips
       ELSE LET id == Min(Unallocated) IN
            /\ eips' = [eips EXCEPT ![id] = [state |-> "allocated", tags |-> NoTags,
                                             legacy |-> TRUE, assoc |-> ""]]
            /\ workers' = [workers EXCEPT ![w].pc = "AssociateAddress",
                                          ![w].allocationID = id]
    /\ UNCHANGED <<pods, indexer, wq, keyLocks, recycler, hist>>

AssociateAddress(w, fail) ==
    /\ workers[w].pc = "AssociateAddress"
    /\ Fault(fail)
    /\ LET ok == ~fail /\ Allocated(workers[w].allocationID) IN
       /\ eips' = IF ok THEN [eips EXCEPT ![workers[w].allocationID].assoc = workers[w].PodIP]
                  ELSE eips
       /\ workers' = ProcessReturn(w, ok)
       /\ hist' = SavedAfter(w, ok)
    /\ UNCHANGED <<pods, indexer, wq, keyLocks, recycler>>

DisassociateAddress(w, fail) ==
    /\ workers[w].pc = "DisassociateAddress"
    /\ Fault(fail)
    /\ LET id == workers[w].allocationID IN
       IF fail \/ ~Allocated(id) \/ eips[id].assoc # workers[w].associationID
       THEN /\ workers' = ProcessReturn(w, FALSE)
            /\ UNCHANGED eips
       ELSE /\ eips' = [eips EXCEPT ![id].assoc = ""]
            /\ workers' = [workers EXCEPT ![w].pc = "ReleaseAddress"]
    /\ UNCHANGED <<pods, indexer, wq, keyLocks, recycler, hist>>

ReleaseAddress(w, fail) ==
    /\ workers[w].pc = "ReleaseAddress"
    /\ Fault(fail)
    /\ LET id == workers[w].allocationID
           ok == ~fail /\ Allocated(id) /\ eips[id].assoc = ""
       IN  /\ eips' = IF ok THEN [eips EXCEPT ![id].state = "released"] ELSE eips
           /\ workers' = ProcessReturn(w, ok)
           /\ hist' = SavedAfter(w, ok)
    /\ UNCHANGED <<pods, indexer, wq, keyLocks, recycler>>

\* ---- Recycle.Run, call by call
\* List: an error is logged and the list is tried again after a sleep
RecycleList(fail) ==
    /\ recycler.pc = "list"
    /\ Fault(fail)
    /\ recycler' = IF fail THEN recycler
                   ELSE [NoRecycle EXCEPT !.pc = "describe", !.IPList = LiveIPs]
    /\ UNCHANGED <<pods, indexer, wq, workers, eips, keyLocks, hist>>

\* DescribeUsedAddresses: with an error the loop has nothing to do; an
\* address without association ends the process (nil pointer dereference)
RecycleDescribe(fail) ==
    /\ recycler.pc = "describe"
    /\ Fault(fail)
    /\ recycler' =
          IF fail
          THEN [recycler EXCEPT !.pc = "list", !.failed = TRUE]
          ELSE IF \E id \in UsedAddresses : eips[id].assoc = ""
          THEN [recycler EXCEPT !.pc = "panic"]
          ELSE [recycler EXCEPT
                   !.pc = IF UsedAddresses = {} THEN "list" ELSE "process",
                   !.addresses = {[id |-> id, ip |-> eips[id].assoc] : id \in UsedAddresses},
                   !.targets = {id \in UsedAddresses : eips[id].assoc \notin recycler.IPList}]
    /\ UNCHANGED <<pods, indexer, wq, workers, eips, keyLocks, hist>>

\* a variant of the loop that skips every address
RecycleDisassociateSkipAll(fail) ==
    /\ recycler.pc = "process"
    /\ ~fail
    /\ \E a \in recycler.addresses :
          recycler' = [recycler EXCEPT
                          !.addresses = @ \ {a},
                          !.pc = IF recycler.addresses = {a} THEN "list" ELSE "process"]
    /\ UNCHANGED <<pods, indexer, wq, workers, eips, keyLocks, ops, hist>>

\* the loop: an address whose IP a listed Pod has is skipped, another one is
\* disassociated; an error is logged and the loop goes on
RecycleDisassociate(fail) ==
    /\ recycler.pc = "process"
    /\ \E a \in recycler.addresses :
          IF a.ip \in recycler.IPList
          THEN /\ ~fail
               /\ recycler' = [recycler EXCEPT
                                  !.addresses = @ \ {a},
                                  !.pc = IF recycler.addresses = {a} THEN "list" ELSE "process"]
               /\ UNCHANGED <<eips, ops>>
          ELSE /\ Fault(fail)
               /\ eips' = IF fail \/ ~Allocated(a.id) \/ eips[a.id].assoc # a.ip
                          THEN eips
                          ELSE [eips EXCEPT ![a.id].assoc = ""]
               /\ recycler' = [recycler EXCEPT !.pc = "release", !.cur = a.id,
                                               !.addresses = @ \ {a},
                                               !.failed = @ \/ fail]
    /\ UNCHANGED <<pods, indexer, wq, workers, keyLocks, hist>>

\* ReleaseAddress is called whether or not the disassociation succeeded
RecycleRelease(fail) ==
    /\ recycler.pc = "release"
    /\ Fault(fail)
    /\ eips' = IF fail \/ ~Allocated(recycler.cur) \/ eips[recycler.cur].assoc # ""
               THEN eips
               ELSE [eips EXCEPT ![recycler.cur].state = "released"]
    /\ recycler' = [recycler EXCEPT
                       !.cur = 0,
                       !.failed = @ \/ fail,
                       !.pc = IF recycler.addresses = {} THEN "list" ELSE "process"]
    /\ UNCHANGED <<pods, indexer, wq, workers, keyLocks, hist>>

\* the process runs until the recycler's goroutine panics
Running == recycler.pc # "panic"

NextL ==
    \/ \E k \in Keys : PodAdded(k)
    \/ \E k \in Keys : PodGotIP(k)
    \/ \E k \in Keys : PodDeleted(k)
    \/ \E w \in Workers : \E k \in Keys : Running /\ HandleEvent(w, k)
    \/ \E w \in Workers : \E fail \in BOOLEAN : Running /\ DescribeAddresses(w, fail)
    \/ \E w \in Workers : \E fail \in BOOLEAN : Running /\ AllocateAddress(w, fail)
    \/ \E w \in Workers : \E fail \in BOOLEAN : Running /\ AssociateAddress(w, fail)
    \/ \E w \in Workers : \E fail \in BOOLEAN : Running /\ DisassociateAddress(w, fail)
    \/ \E w \in Workers : \E fail \in BOOLEAN : Running /\ ReleaseAddress(w, fail)
    \/ \E fail \in BOOLEAN : RecycleList(fail)
    \/ \E fail \in BOOLEAN : RecycleDescribe(fail)
    \/ \E fail \in BOOLEAN : RecycleDisassociate(fail)
    \/ \E fail \in BOOLEAN : RecycleRelease(fail)

SpecL == InitL /\ [][NextL]_vars

(***************************************************************************)
(* SpecH: the handler called directly, one call after the other, the way    *)
(* one worker calls it for one key.  A user creates the Pod with any        *)
(* annotations and labels; between calls the Pod may get its IP, have its   *)
(* annotations edited or be deleted; a call is made with the Pod as it is   *)
(* or with the Pod object of the call before (an index that has not caught  *)
(* up); the controller may stop in the middle of a call.  The log keeps     *)
(* each call with the cloud and the labels before and after it.             *)
(***************************************************************************)
MaxCalls == 3

Caller == 1

AnnInvalid == [type |-> "invalid", pool |-> "", tag |-> "", tagv |-> ""]

HAnns == {AnnNone, AnnInvalid, AnnAuto, AnnFixedTag, AnnFixedTagValue}

\* labels a user can give the Pod at creation
HLabels == {NoLabels, [NoLabels EXCEPT !.type = PodEIPAnnotationValueAuto]}

NoCall == [op |-> "", view |-> NoPod, before |-> <<>>, labels0 |-> NoLabels,
           err |-> "", stopped |-> "", after |-> <<>>, labels1 |-> NoLabels]

InitH ==
    /\ pods \in {[k \in Keys |-> IF k = key
                                THEN [exists |-> TRUE, ip |-> "", ann |-> a, labels |-> l]
                                ELSE NoPod] :
                    key \in Keys, a \in HAnns, l \in HLabels}
    /\ indexer = [k \in Keys |-> NoPod]
    /\ wq = EmptyQueue
    /\ workers = [w \in Workers |-> Idle]
    /\ eips = [id \in EipIds |-> InitEip(id)]
    /\ keyLocks = [t \in {"pool1"} |-> 0]
    /\ recycler = NoScan
    /\ ops = [created |-> {k \in Keys : pods[k].exists}, changes |-> 0,
              edited |-> FALSE, faults |-> 0]
    /\ hist = [log |-> <<>>, cur |-> NoCall]

HAssignIP(k) ==
    /\ workers[Caller].pc = "idle"
    /\ pods[k].exists
    /\ pods[k].ip = ""
    /\ pods' = [pods EXCEPT ![k].ip = PodIP(k)]
    /\ UNCHANGED <<indexer, wq, workers, eips, keyLocks, recycler, ops, hist>>

HEdit(k, a) ==
    /\ workers[Caller].pc = "idle"
    /\ pods[k].exists
    /\ pods[k].ann # a
    /\ ops.changes < MaxPodChanges
    /\ ops' = [ops EXCEPT !.changes = @ + 1, !.edited = TRUE]
    /\ pods' = [pods EXCEPT ![k].ann = a]
    /\ UNCHANGED <<indexer, wq, workers, eips, keyLocks, recycler, hist>>

HDelete(k) ==
    /\ workers[Caller].pc = "idle"
    /\ pods[k].exists
    /\ pods' = [pods EXCEPT ![k] = NoPod]
    /\ UNCHANGED <<indexer, wq, workers, eips, keyLocks, recycler, ops, hist>>

LastCall == hist.log[Len(hist.log)]

\* the worker calls AddOrUpdate with the Pod as it is, or with the object of
\* the call before
HAddOrUpdate(k, same) ==
    /\ workers[Caller].pc = "idle"
    /\ Len(hist.log) < MaxCalls
    /\ pods[k].exists
    /\ same => /\ hist.log # <<>>
               /\ LastCall.op = "AddOrUpdate"
               /\ LastCall.view.exists
    /\ LET view == IF same THEN LastCall.view ELSE pods[k] IN
       /\ workers' = [workers EXCEPT ![Caller] = AddOrUpdate([Idle EXCEPT !.key = k], view)]
       /\ hist' = [hist EXCEPT !.cur = [NoCall EXCEPT !.op = "AddOrUpdate", !.view = view,
                                                      !.before = eips,
                                                      !.labels0 = pods[k].labels]]
    /\ UNCHANGED <<pods, indexer, wq, eips, keyLocks, recycler, ops>>

\* the worker finds the Pod gone and calls Delete
HDeleteCall(k) ==
    /\ workers[Caller].pc = "idle"
    /\ Len(hist.log) < MaxCalls
    /\ k \in ops.created
    /\ ~pods[k].exists
    /\ workers' = [workers EXCEPT ![Caller] = Delete([Idle EXCEPT !.key = k])]
    /\ hist' = [hist EXCEPT !.cur = [NoCall EXCEPT !.op = "Delete", !.before = eips]]
    /\ UNCHANGED <<pods, indexer, wq, eips, keyLocks, recycler, ops>>

HReturn ==
    /\ workers[Caller].pc = "result"
    /\ hist' = [log |-> Append(hist.log,
                               [hist.cur EXCEPT !.err = workers[Caller].err,
                                                !.after = eips,
                                                !.labels1 = pods[workers[Caller].key].labels]),
                cur |-> NoCall]
    /\ workers' = [workers EXCEPT ![Caller] = Idle]
    /\ UNCHANGED <<pods, indexer, wq, eips, keyLocks, recycler, ops>>

\* the controller stops in the middle of a call and starts again: the key
\* locks are gone with the process
HStop ==
    /\ workers[Caller].pc \notin {"idle", "result"}
    /\ hist' = [log |-> Append(hist.log,
                               [hist.cur EXCEPT !.stopped = workers[Caller].pc,
                                                !.after = eips,
                                                !.labels1 = pods[workers[Caller].key].labels]),
                cur |-> NoCall]
    /\ workers' = [workers EXCEPT ![Caller] = Idle]
    /\ keyLocks' = [t \in DOMAIN keyLocks |-> 0]
    /\ UNCHANGED <<pods, indexer, wq, eips, recycler, ops>>

NextH ==
    \/ \E k \in Keys : HAssignIP(k)
    \/ \E k \in Keys : \E a \in HAnns : HEdit(k, a)
    \/ \E k \in Keys : HDelete(k)
    \/ \E k \in Keys : \E same \in BOOLEAN : HAddOrUpdate(k, same)
    \/ \E k \in Keys : HDeleteCall(k)
    \/ HReturn
    \/ HStop
    \/ \E fail \in BOOLEAN : describePodAddresses(Caller, fail)
    \/ \E fail \in BOOLEAN : disassociateAddress(Caller, fail)
    \/ \E fail \in BOOLEAN : releaseAddress(Caller, fail)
    \/ \E fail \in BOOLEAN : deleteTag(Caller, fail)
    \/ \E fail \in BOOLEAN : removeLabels(Caller, fail)
    \/ \E fail \in BOOLEAN : getNetworkInterface(Caller, fail)
    \/ \E fail \in BOOLEAN : allocateAddress(Caller, fail)
    \/ keyLocksLock(Caller)
    \/ \E fail \in BOOLEAN : getTagAddress(Caller, fail)
    \/ \E fail \in BOOLEAN : getTagValueAddress(Caller, fail)
    \/ \E fail \in BOOLEAN : createTag(Caller, fail)
    \/ \E fail \in BOOLEAN : associateAddress(Caller, fail)
    \/ \E fail \in BOOLEAN : addLabels(Caller, fail)

SpecH == InitH /\ [][NextH]_vars

(***************************************************************************)
(* SpecE: the informer's callbacks, the queue and the worker's run loop    *)
(* up to the shutdown.  The informer delivers Pods with every type         *)
(* annotation, with and without IP; run takes keys from the queue and      *)
(* hands each to a goroutine, that calls processItem with a handler that   *)
(* may fail; the informer stops, the queue is shut down and run returns.   *)
(* ops is where run is; hist keeps, per key, the last event whose callback *)
(* called queue.Add, with the object it carried, the key of the last       *)
(* event, and counts the events.                                           *)
(***************************************************************************)
\* informer events delivered before the shutdown
MaxDeliveries == 3

NoDelivery == [kind |-> "", obj |-> NoPod]

EventPods(k) ==
    IF k = testKey
    THEN {NewPod(k, a, hasIP) :
             a \in {AnnNone, AnnInvalid, AnnAuto, AnnFixedTag, AnnFixedTagValue},
             hasIP \in BOOLEAN}
    ELSE {NewPod(k, AnnAuto, TRUE)}

InitE ==
    /\ pods = [k \in Keys |-> NoPod]
    /\ indexer = [k \in Keys |-> NoPod]
    /\ wq = EmptyQueue
    /\ workers = [w \in Workers |-> Idle]
    /\ eips = <<>>
    /\ keyLocks = <<>>
    /\ recycler = <<>>
    /\ ops = [run |-> "get"]
    /\ hist = [events |-> 0, key |-> "", event |-> [k \in Keys |-> NoDelivery]]

\* the event is counted, and kept when its callback called queue.Add
CountDelivery(k, kind, obj, enqueues) ==
    /\ ~wq.shuttingDown
    /\ hist.events < MaxDeliveries
    /\ hist' = [events |-> hist.events + 1,
                key |-> k,
                event |-> IF enqueues
                          THEN [hist.event EXCEPT ![k] = [kind |-> kind, obj |-> obj]]
                          ELSE hist.event]

EAddEvent(k, obj) ==
    /\ OnAdd(k, obj)
    /\ CountDelivery(k, "add", obj, addFunc(EmptyQueue, k, obj) # EmptyQueue)
    /\ UNCHANGED <<pods, workers, cloudVars>>

\* an update, or a resync that delivers the object the index holds
EUpdateEvent(k, obj) ==
    /\ OnUpdate(k, obj)
    /\ CountDelivery(k, IF obj = indexer[k] THEN "resync" ELSE "update", obj,
                  updateFunc(EmptyQueue, k, indexer[k], obj) # EmptyQueue)
    /\ UNCHANGED <<pods, workers, cloudVars>>

EDeleteEvent(k) ==
    /\ OnDelete(k)
    /\ CountDelivery(k, "delete", indexer[k], deleteFunc(EmptyQueue, k, indexer[k]) # EmptyQueue)
    /\ UNCHANGED <<pods, workers, cloudVars>>

\* PodController.Run: the informer has stopped, the queue is shut down
ShutDown ==
    /\ ~wq.shuttingDown
    /\ wq' = [wq EXCEPT !.shuttingDown = TRUE]
    /\ UNCHANGED <<pods, indexer, workers, cloudVars, hist>>

\* run: queue.Get returns a key, a goroutine takes it
EGet(w) ==
    /\ ops.run = "get"
    /\ processNextItem(w)
    /\ UNCHANGED <<pods, indexer, cloudVars, hist>>

\* run: queue.Get returns shutdown; run waits for its goroutines
EGetShutDown ==
    /\ ops.run = "get"
    /\ wq.shuttingDown
    /\ QLen(wq) = 0
    /\ ops' = [ops EXCEPT !.run = "wait"]
    /\ UNCHANGED <<pods, indexer, wq, workers, eips, keyLocks, recycler, hist>>

\* a run that returns without wg.Wait
ERunReturnAtOnce ==
    /\ ops.run = "wait"
    /\ ops' = [ops EXCEPT !.run = "returned"]
    /\ UNCHANGED <<pods, indexer, wq, workers, eips, keyLocks, recycler, hist>>

\* run: wg.Wait returns and run returns
ERunReturn ==
    /\ ops.run = "wait"
    /\ \A w \in Workers : ~Busy(w)
    /\ ops' = [ops EXCEPT !.run = "returned"]
    /\ UNCHANGED <<pods, indexer, wq, workers, eips, keyLocks, recycler, hist>>

\* a processItem that chooses the handler's method by the event that
\* enqueued the key
EHandlerByEvent(w, fails) ==
    /\ workers[w].pc = "processItem"
    /\ LET key == workers[w].key IN
       workers' = [workers EXCEPT
                      ![w].pc = "result",
                      ![w].op = IF hist.event[key].kind = "delete"
                                THEN "Delete" ELSE "AddOrUpdate",
                      ![w].view = IF hist.event[key].kind = "delete"
                                  THEN NoPod ELSE indexer[key],
                      ![w].err = IF fails THEN "test delete failure" ELSE ""]
    /\ UNCHANGED <<pods, indexer, wq, cloudVars, hist>>

\* processItem: GetByKey, then Delete for a key that is not in the index
\* and AddOrUpdate with the Pod of the index otherwise; the handler returns
\* an error or nil
EHandler(w, fails) ==
    /\ workers[w].pc = "processItem"
    /\ LET key == workers[w].key IN
       workers' = [workers EXCEPT
                      ![w].pc = "result",
                      ![w].op = IF ~indexer[key].exists THEN "Delete" ELSE "AddOrUpdate",
                      ![w].view = IF ~indexer[key].exists THEN NoPod ELSE indexer[key],
                      ![w].err = IF fails THEN "test delete failure" ELSE ""]
    /\ UNCHANGED <<pods, indexer, wq, cloudVars, hist>>

ESteps ==
    \/ \E w \in Workers : EGet(w)
    \/ EGetShutDown
    \/ ERunReturn
    \/ \E w \in Workers : \E fails \in BOOLEAN : EHandler(w, fails)
    \/ \E w \in Workers : QResult(w)
    \/ \E w \in Workers : QDone(w)

NextE ==
    \/ \E k \in Keys : \E obj \in EventPods(k) : EAddEvent(k, obj)
    \/ \E k \in Keys : \E obj \in EventPods(k) : EUpdateEvent(k, obj)
    \/ \E k \in Keys : EDeleteEvent(k)
    \/ ShutDown
    \/ \E k \in Keys : QDelayedAdd(k)
    \/ ESteps

SpecE == InitE /\ [][NextE]_vars

\* the goroutines and run are scheduled: a step of theirs that can be taken
\* is taken
SpecEFair == SpecE /\ WF_vars(ESteps)

(***************************************************************************)
(* SpecT: two Pods claim the one address of the fixed-tag pool pool1.      *)
(* Both Pods have their IP and the informer has queued their keys.  The    *)
(* cloud and cluster calls do not fail, the informer does not resync       *)
(* (resync-period is 0 unless it is set), and a user may delete a Pod or   *)
(* the kubelet may update a Pod's status once.  SpecTFair adds the fair    *)
(* scheduling of the informer's deliveries, the queue's delayed adds and   *)
(* the workers.                                                            *)
(***************************************************************************)
InitT ==
    /\ pods = [k \in Keys |-> NewPod(k, AnnFixedTag, TRUE)]
    /\ indexer = pods
    /\ \E first \in Keys : \E second \in Keys \ {first} :
          wq = Add(Add(EmptyQueue, first), second)
    /\ workers = [w \in Workers |-> Idle]
    /\ eips = [id \in EipIds |-> InitEip(id)]
    /\ keyLocks = [t \in {"pool1"} |-> 0]
    /\ recycler = NoScan
    /\ ops = [created |-> Keys, changes |-> 0, edited |-> FALSE, faults |-> 0]
    /\ hist = NoHist

TSteps ==
    \/ \E k \in Keys : InformerUpdate(k)
    \/ \E k \in Keys : InformerDelete(k)
    \/ \E w \in Workers : WorkerGet(w)
    \/ \E w \in Workers : describePodAddresses(w, FALSE)
    \/ \E w \in Workers : disassociateAddress(w, FALSE)
    \/ \E w \in Workers : deleteTag(w, FALSE)
    \/ \E w \in Workers : removeLabels(w, FALSE)
    \/ \E w \in Workers : getNetworkInterface(w, FALSE)
    \/ \E w \in Workers : keyLocksLock(w)
    \/ \E w \in Workers : getTagAddress(w, FALSE)
    \/ \E w \in Workers : createTag(w, FALSE)
    \/ \E w \in Workers : associateAddress(w, FALSE)
    \/ \E w \in Workers : addLabels(w, FALSE)
    \/ \E w \in Workers : WorkerDone(w)
    \/ \E k \in Keys : DelayedAdd(k)

NextT ==
    \/ \E k \in Keys : DeletePod(k)
    \/ \E k \in Keys : UpdatePodStatus(k)
    \/ TSteps

SpecT == InitT /\ [][NextT]_vars

SpecTFair == SpecT /\ WF_vars(TSteps)

(***************************************************************************)
(* SpecK: the key-lock registry in steps.  Each of three goroutines calls  *)
(* EC2Client.AssociateAddress in fixed-tag mode with one of two tag keys:  *)
(* keyLocks.Lock(TagKey), the claim, tag and associate calls (any of which *)
(* may return an error), and the deferred keyLocks.Unlock(TagKey).         *)
(* keyLocks.locks is the sync.Map (0: no entry, else the mutex stored),    *)
(* keyLocks.syncLock the goroutine holding the inner guard, and            *)
(* keyLocks.mutex the holder of each mutex created (0: unlocked).  A       *)
(* goroutine's lock is its local variable of that name, and hist counts    *)
(* the mutexes created for each key.                                       *)
(***************************************************************************)
LockKeys == {"pool1", "pool3"}

\* goroutines of the worker that call AssociateAddress at the same time
NumLockCallers == 3

LockCallers == 1..NumLockCallers

\* calls of AssociateAddress by one goroutine
MaxLockCalls == 2

NoLockCall == [pc |-> "idle", key |-> "", lock |-> 0, deferred |-> FALSE, calls |-> 0]

InitK ==
    /\ pods = [k \in Keys |-> NoPod]
    /\ indexer = [k \in Keys |-> NoPod]
    /\ wq = EmptyQueue
    /\ workers = [w \in LockCallers |-> NoLockCall]
    /\ eips = <<>>
    /\ keyLocks = [locks |-> [k \in LockKeys |-> 0], syncLock |-> 0, mutex |-> <<>>]
    /\ recycler = <<>>
    /\ ops = <<>>
    /\ hist = [created |-> [k \in LockKeys |-> 0]]

KStill == UNCHANGED <<pods, indexer, wq, eips, recycler, ops>>

\* case PodEIPAnnotationValueFixedTag of AssociateAddress is entered
AssociateAddressFixedTag(w, tagKey) ==
    /\ workers[w].pc = "idle"
    /\ workers[w].calls < MaxLockCalls
    /\ workers' = [workers EXCEPT ![w].pc = "Load", ![w].key = tagKey,
                                  ![w].calls = @ + 1]
    /\ UNCHANGED <<keyLocks, hist>>
    /\ KStill

\* lock, ok := kl.locks.Load(key)
LockLoad(w) ==
    /\ workers[w].pc = "Load"
    /\ workers' = [workers EXCEPT
                      ![w].lock = keyLocks.locks[workers[w].key],
                      ![w].pc = IF keyLocks.locks[workers[w].key] # 0
                                THEN "mutexLock" ELSE "syncLock"]
    /\ UNCHANGED <<keyLocks, hist>>
    /\ KStill

\* kl.syncLock.Lock(); defer kl.syncLock.Unlock()
LockSyncLock(w) ==
    /\ workers[w].pc = "syncLock"
    /\ keyLocks.syncLock = 0
    /\ keyLocks' = [keyLocks EXCEPT !.syncLock = w]
    /\ workers' = [workers EXCEPT ![w].pc = "LoadAgain", ![w].deferred = TRUE]
    /\ UNCHANGED hist
    /\ KStill

\* a variant without the second Load: it stores a new mutex at once
LockStoreUnchecked(w) ==
    /\ workers[w].pc = "LoadAgain"
    /\ keyLocks' = [keyLocks EXCEPT !.mutex = Append(@, 0),
                                    !.locks[workers[w].key] = Len(keyLocks.mutex) + 1]
    /\ workers' = [workers EXCEPT ![w].lock = Len(keyLocks.mutex) + 1,
                                  ![w].pc = "mutexLock"]
    /\ hist' = [hist EXCEPT !.created[workers[w].key] = @ + 1]
    /\ KStill

\* lock, ok = kl.locks.Load(key) under the guard, and, when the key has no
\* mutex yet, lock = &sync.Mutex{}; kl.locks.Store(key, lock)
LockLoadAgain(w) ==
    /\ workers[w].pc = "LoadAgain"
    /\ IF keyLocks.locks[workers[w].key] # 0
       THEN /\ workers' = [workers EXCEPT ![w].lock = keyLocks.locks[workers[w].key],
                                          ![w].pc = "mutexLock"]
            /\ UNCHANGED <<keyLocks, hist>>
       ELSE /\ keyLocks' = [keyLocks EXCEPT
                               !.mutex = Append(@, 0),
                               !.locks[workers[w].key] = Len(keyLocks.mutex) + 1]
            /\ workers' = [workers EXCEPT ![w].lock = Len(keyLocks.mutex) + 1,
                                          ![w].pc = "mutexLock"]
            /\ hist' = [hist EXCEPT !.created[workers[w].key] = @ + 1]
    /\ KStill

\* lock.(*sync.Mutex).Lock() blocks until the mutex is unlocked
LockMutexLock(w) ==
    /\ workers[w].pc = "mutexLock"
    /\ keyLocks.mutex[workers[w].lock] = 0
    /\ keyLocks' = [keyLocks EXCEPT !.mutex[workers[w].lock] = w]
    /\ workers' = [workers EXCEPT ![w].pc = IF workers[w].deferred
                                            THEN "syncUnlock" ELSE "getTagAddress"]
    /\ UNCHANGED hist
    /\ KStill

\* the deferred kl.syncLock.Unlock() as Lock returns
LockReturn(w) ==
    /\ workers[w].pc = "syncUnlock"
    /\ keyLocks' = [keyLocks EXCEPT !.syncLock = 0]
    /\ workers' = [workers EXCEPT ![w].pc = "getTagAddress", ![w].deferred = FALSE]
    /\ UNCHANGED hist
    /\ KStill

ClaimSteps == <<"getTagAddress", "createTag", "associateAddress", "Unlock">>

StepAfter(pc) == ClaimSteps[(CHOOSE i \in 1..3 : ClaimSteps[i] = pc) + 1]

\* getTagAddress, createTag and associateAddress: the call returns, or it
\* fails and AssociateAddress returns the error
ClaimStep(w, fail) ==
    /\ workers[w].pc \in {"getTagAddress", "createTag", "associateAddress"}
    /\ workers' = [workers EXCEPT ![w].pc = IF fail THEN "Unlock" ELSE StepAfter(@)]
    /\ UNCHANGED <<keyLocks, hist>>
    /\ KStill

\* a variant of Unlock that passes the registry's guard first
UnlockUnderGuard(w) ==
    /\ workers[w].pc = "Unlock"
    /\ keyLocks.syncLock = 0
    /\ keyLocks.locks[workers[w].key] # 0
    /\ keyLocks' = [keyLocks EXCEPT !.mutex[keyLocks.locks[workers[w].key]] = 0]
    /\ workers' = [workers EXCEPT ![w].pc = "idle", ![w].key = "", ![w].lock = 0]
    /\ UNCHANGED hist
    /\ KStill

\* the deferred keyLocks.Unlock(TagKey): Load and Mutex.Unlock
Unlock(w) ==
    /\ workers[w].pc = "Unlock"
    /\ keyLocks.locks[workers[w].key] # 0
    /\ keyLocks' = [keyLocks EXCEPT !.mutex[keyLocks.locks[workers[w].key]] = 0]
    /\ workers' = [workers EXCEPT ![w].pc = "idle", ![w].key = "", ![w].lock = 0]
    /\ UNCHANGED hist
    /\ KStill

NextK ==
    \/ \E w \in LockCallers : \E tagKey \in LockKeys : AssociateAddressFixedTag(w, tagKey)
    \/ \E w \in LockCallers : LockLoad(w)
    \/ \E w \in LockCallers : LockSyncLock(w)
    \/ \E w \in LockCallers : LockLoadAgain(w)
    \/ \E w \in LockCallers : LockMutexLock(w)
    \/ \E w \in LockCallers : LockReturn(w)
    \/ \E w \in LockCallers : \E fail \in BOOLEAN : ClaimStep(w, fail)
    \/ \E w \in LockCallers : Unlock(w)

SpecK == InitK /\ [][NextK]_vars

\* the steps of goroutine w inside AssociateAddress: the scheduler runs
\* every goroutine that can run, each cloud call returns, and the deferred
\* Unlock runs when AssociateAddress returns
KStepsOf(w) ==
    \/ LockLoad(w)
    \/ LockSyncLock(w)
    \/ LockLoadAgain(w)
    \/ LockMutexLock(w)
    \/ LockReturn(w)
    \/ \E fail \in BOOLEAN : ClaimStep(w, fail)
    \/ Unlock(w)

SpecKFair == SpecK /\ \A w \in LockCallers : WF_vars(KStepsOf(w))

(***************************************************************************)
(* SpecM: main of the build with leader election.  Each replica of the     *)
(* controller initialises, campaigns for the lease, and leads while it     *)
(* renews the lease in time; the orchestrator restarts a process that has  *)
(* exited.  ops.proc is where each process is and the code it exited with  *)
(* (-1 while it runs), ops.lease the lease's holder (0: nobody) and age:   *)
(* fresh, due (the retry period has passed), late (the renew deadline has  *)
(* passed) or expired (the lease duration has passed).  hist is the reason *)
(* of each process's last exit.                                            *)
(***************************************************************************)
Replicas == Workers

\* starts of one replica's process
MaxStarts == 2

NewProcess == [pc |-> "init", code |-> -1, starts |-> 1]

InitM ==
    /\ pods = [k \in Keys |-> NoPod]
    /\ indexer = [k \in Keys |-> NoPod]
    /\ wq = <<>>
    /\ workers = <<>>
    /\ eips = <<>>
    /\ keyLocks = <<>>
    /\ recycler = <<>>
    /\ ops = [proc |-> [r \in Replicas |-> NewProcess],
              lease |-> [holder |-> 0, age |-> "fresh"]]
    /\ hist = [r \in Replicas |-> ""]

MStill == UNCHANGED <<pods, indexer, wq, workers, eips, keyLocks, recycler>>

Exit(r, code) == [ops EXCEPT !.proc[r].pc = "exited", !.proc[r].code = code]

\* the configuration, the region and VPC and the cluster client; an error
\* ends the process through logrus.Fatalln
MainInit(r, fail) ==
    /\ ops.proc[r].pc = "init"
    /\ IF fail
       THEN ops' = Exit(r, 1) /\ hist' = [hist EXCEPT ![r] = "fatal"]
       ELSE ops' = [ops EXCEPT !.proc[r].pc = "acquire"] /\ UNCHANGED hist
    /\ MStill

\* leaderelection.RunOrDie acquires the lease when nobody holds it or it
\* has expired
LeaseAcquire(r) ==
    /\ ops.proc[r].pc = "acquire"
    /\ ops.lease.holder = 0 \/ ops.lease.age = "expired"
    /\ ops' = [ops EXCEPT !.lease = [holder |-> r, age |-> "fresh"],
                          !.proc[r].pc = "OnStartedLeading"]
    /\ UNCHANGED hist
    /\ MStill

\* the handler, the informer and the recycler are created and started
OnStartedLeading(r, fail) ==
    /\ ops.proc[r].pc = "OnStartedLeading"
    /\ IF fail
       THEN ops' = Exit(r, 1) /\ hist' = [hist EXCEPT ![r] = "fatal"]
       ELSE ops' = [ops EXCEPT !.proc[r].pc = "leading"] /\ UNCHANGED hist
    /\ MStill

\* time passes on the lease
LeaseAges ==
    /\ ops.lease.holder # 0
    /\ ops.lease.age # "expired"
    /\ ops' = [ops EXCEPT !.lease.age = IF @ = "fresh" THEN "due"
                                        ELSE IF @ = "due" THEN "late" ELSE "expired"]
    /\ UNCHANGED hist
    /\ MStill

\* the leader renews the lease within the renew deadline
LeaseRenew(r) ==
    /\ ops.proc[r].pc = "leading"
    /\ ops.lease.holder = r
    /\ ops.lease.age = "due"
    /\ ops' = [ops EXCEPT !.lease.age = "fresh"]
    /\ UNCHANGED hist
    /\ MStill

\* the leader has not renewed the lease within the renew deadline, or
\* finds another holder: OnStoppedLeading logs and calls os.Exit(0)
OnStoppedLeading(r) ==
    /\ ops.proc[r].pc = "leading"
    /\ ops.lease.holder # r \/ ops.lease.age \in {"late", "expired"}
    /\ ops' = Exit(r, 0)
    /\ hist' = [hist EXCEPT ![r] = "stop leading"]
    /\ MStill

\* the orchestrator starts the replica's process again
Restart(r) ==
    /\ ops.proc[r].pc = "exited"
    /\ ops.proc[r].starts < MaxStarts
    /\ ops' = [ops EXCEPT !.proc[r] = [NewProcess EXCEPT !.starts = ops.proc[r].starts + 1]]
    /\ UNCHANGED hist
    /\ MStill

NextM ==
    \/ \E r \in Replicas : \E fail \in BOOLEAN : MainInit(r, fail)
    \/ \E r \in Replicas : LeaseAcquire(r)
    \/ \E r \in Replicas : \E fail \in BOOLEAN : OnStartedLeading(r, fail)
    \/ LeaseAges
    \/ \E r \in Replicas : LeaseRenew(r)
    \/ \E r \in Replicas : OnStoppedLeading(r)
    \/ \E r \in Replicas : Restart(r)

SpecM == InitM /\ [][NextM]_vars

(***************************************************************************)
(* SpecC: the handler of the build that remembers the last reconciled      *)
(* event of each Pod (cacheEventMap) and decides from it, at Delete,       *)
(* whether the address is reclaimed.  The handler is called with the Pod   *)
(* as it is (AddOrUpdate) or with the key of a Pod that is gone (Delete);  *)
(* a call is one step, and one of its calls to the ENI client or to the    *)
(* cluster may fail.  A Pod here is [exists, ip, ann, label]: ann holds    *)
(* the type, reclaim and mode annotations ("" is absent) and label tells   *)
(* that the Pod carries the public-ip label.  eips tells, per Pod key,     *)
(* whether an address is associated with the Pod's IP.  ops holds the      *)
(* handler's cacheEventMap and the counts of the Pod edits, the faults and *)
(* the controller's restarts; hist holds, per key, the annotations the Pod *)
(* carried when it was deleted and whether its Delete call is to come.     *)
(* The resource version of PodEvent is left out: two events with the same  *)
(* resource version have the same annotations, and sameStatusInCache       *)
(* returns true for those anyway.                                          *)
(***************************************************************************)
PodEIPReclaimAnnotationVal == "false"

PodEIPModeAnnotationVal == "fixed"

NoAnnotations == [type |-> "", reclaim |-> "", mode |-> ""]

\* the annotations users give to the Pods
Annotations(k) ==
    IF k = testKey
    THEN [type : {"", PodEIPAnnotationValue, "invalid"},
          reclaim : {"", PodEIPReclaimAnnotationVal, "true"},
          mode : {"", PodEIPModeAnnotationVal}]
    ELSE {[type |-> PodEIPAnnotationValue, reclaim |-> PodEIPReclaimAnnotationVal, mode |-> ""]}

\* annotation edits of one Pod
MaxEdits == 1

\* restarts of the controller
MaxRestarts == 1

GonePod == [exists |-> FALSE, ip |-> "", ann |-> NoAnnotations, label |-> FALSE]

NoPodEvent == [present |-> FALSE, ann |-> NoAnnotations, label |-> FALSE]

NewPodEvent(pod) == [present |-> TRUE, ann |-> pod.ann, label |-> pod.label]

HasEIPAnnotation(p) == p.ann.type = PodEIPAnnotationValue

\* a variant that looks at the mode annotation first
IsEIPReclaimDisabledModeFirst(p) ==
    \/ p.ann.mode = PodEIPModeAnnotationVal
    \/ p.ann.reclaim = PodEIPReclaimAnnotationVal

\* the reclaim annotation decides when it is present, the mode annotation
\* otherwise
IsEIPReclaimDisabled(p) ==
    IF p.ann.reclaim # "" THEN p.ann.reclaim = PodEIPReclaimAnnotationVal
    ELSE IF p.ann.mode # "" THEN p.ann.mode = PodEIPModeAnnotationVal
    ELSE FALSE

sameStatusInCache(key, event) ==
    /\ ops.cacheEventMap[key].present
    /\ \/ ops.cacheEventMap[key].ann.type = event.ann.type
       \/ /\ ops.cacheEventMap[key].ann.type # PodEIPAnnotationValue
          /\ event.ann.type # PodEIPAnnotationValue

isEnableEIPReclaim(key) ==
    ~(ops.cacheEventMap[key].present /\ IsEIPReclaimDisabled(ops.cacheEventMap[key]))

InitC ==
    /\ pods = [k \in Keys |-> GonePod]
    /\ indexer = <<>>
    /\ wq = <<>>
    /\ workers = <<>>
    /\ eips = [k \in Keys |-> FALSE]
    /\ keyLocks = <<>>
    /\ recycler = <<>>
    /\ ops = [cacheEventMap |-> [k \in Keys |-> NoPodEvent],
              edits |-> [k \in Keys |-> 0], created |-> {}, faults |-> 0, restarts |-> 0]
    /\ hist = [k \in Keys |-> [carried |-> NoAnnotations, pending |-> FALSE]]

CStill == UNCHANGED <<indexer, wq, workers, keyLocks, recycler>>

CCreatePod(k, a) ==
    /\ ~pods[k].exists
    /\ k \notin ops.created
    /\ ~hist[k].pending
    /\ pods' = [pods EXCEPT ![k] = [exists |-> TRUE, ip |-> "", ann |-> a, label |-> FALSE]]
    /\ ops' = [ops EXCEPT !.created = @ \cup {k}]
    /\ UNCHANGED <<eips, hist>>
    /\ CStill

CAssignIP(k) ==
    /\ pods[k].exists
    /\ pods[k].ip = ""
    /\ pods' = [pods EXCEPT ![k].ip = PodIP(k)]
    /\ UNCHANGED <<eips, ops, hist>>
    /\ CStill

CEditPod(k, a) ==
    /\ pods[k].exists
    /\ pods[k].ann # a
    /\ ops.edits[k] < MaxEdits
    /\ pods' = [pods EXCEPT ![k].ann = a]
    /\ ops' = [ops EXCEPT !.edits[k] = @ + 1]
    /\ UNCHANGED <<eips, hist>>
    /\ CStill

\* the Pod is deleted; the worker will call Delete with its key
CDeletePod(k) ==
    /\ pods[k].exists
    /\ hist' = [hist EXCEPT ![k] = [carried |-> pods[k].ann, pending |-> TRUE]]
    /\ pods' = [pods EXCEPT ![k] = GonePod]
    /\ UNCHANGED <<eips, ops>>
    /\ CStill

\* the calls of a handler call that can fail
CacheFaults ==
    {"", "HasAssociatedAddress", "AssociateAddress", "DisassociateAddress", "Patch"}

CFault(f) == f # "" => ops.faults < MaxFaults

Counted(o, f) == IF f = "" THEN o ELSE [o EXCEPT !.faults = @ + 1]

\* Handler.addOrUpdateEvent for a Pod without the type annotation auto: the
\* address, if any, is disassociated and the label, if any, removed
removeEvent(k, event, f) ==
    IF eips[k] /\ f = "DisassociateAddress"
    THEN [ok |-> FALSE, assoc |-> eips[k], label |-> event.label]
    ELSE IF event.label /\ f = "Patch"
    THEN [ok |-> FALSE, assoc |-> FALSE, label |-> event.label]
    ELSE [ok |-> TRUE, assoc |-> FALSE, label |-> FALSE]

\* Handler.addOrUpdateEvent for a Pod with the type annotation auto: an
\* address is associated (a fixed one in mode fixed) and the label added
addEvent(k, event, f) ==
    IF f = "AssociateAddress"
    THEN [ok |-> FALSE, assoc |-> eips[k], label |-> event.label]
    ELSE IF ~event.label /\ f = "Patch"
    THEN [ok |-> FALSE, assoc |-> TRUE, label |-> event.label]
    ELSE [ok |-> TRUE, assoc |-> TRUE, label |-> TRUE]

addOrUpdateEvent(k, event, f) ==
    IF f = "HasAssociatedAddress"
    THEN [ok |-> FALSE, assoc |-> eips[k], label |-> event.label]
    ELSE IF ~HasEIPAnnotation(event) THEN removeEvent(k, event, f)
    ELSE addEvent(k, event, f)

\* Handler.AddOrUpdate(key, pod): nothing for a Pod without IP or with the
\* same status in the cache; the event is stored when addOrUpdateEvent
\* returns no error
CacheAddOrUpdate(k, f) ==
    /\ pods[k].exists
    /\ CFault(f)
    /\ LET event == NewPodEvent(pods[k])
           res == addOrUpdateEvent(k, event, f)
       IN IF pods[k].ip = "" \/ sameStatusInCache(k, event)
          THEN /\ f = ""
               /\ UNCHANGED <<pods, eips, ops>>
          ELSE /\ eips' = [eips EXCEPT ![k] = res.assoc]
               /\ pods' = [pods EXCEPT ![k].label = res.label]
               /\ ops' = IF res.ok
                         THEN [ops EXCEPT !.cacheEventMap[k] = event]
                         ELSE Counted(ops, f)
    /\ UNCHANGED hist
    /\ CStill

\* Handler.Delete(key): DisassociateAddress when isEnableEIPReclaim, and
\* the event is dropped from the cache unless the call failed
CacheDelete(k, f) ==
    /\ hist[k].pending
    /\ ~pods[k].exists
    /\ f \in {"", "DisassociateAddress"}
    /\ CFault(f)
    /\ IF isEnableEIPReclaim(k)
       THEN IF f = ""
            THEN /\ eips' = [eips EXCEPT ![k] = FALSE]
                 /\ ops' = [ops EXCEPT !.cacheEventMap[k] = NoPodEvent]
                 /\ hist' = [hist EXCEPT ![k].pending = FALSE]
            ELSE /\ ops' = Counted(ops, f)
                 /\ UNCHANGED <<eips, hist>>
       ELSE /\ f = ""
            /\ ops' = [ops EXCEPT !.cacheEventMap[k] = NoPodEvent]
            /\ hist' = [hist EXCEPT ![k].pending = FALSE]
            /\ UNCHANGED eips
    /\ UNCHANGED pods
    /\ CStill

\* the controller restarts: the cache and the queue are empty, and the
\* informer lists the Pods that exist
CRestart ==
    /\ ops.restarts < MaxRestarts
    /\ ops' = [ops EXCEPT !.restarts = @ + 1,
                          !.cacheEventMap = [k \in Keys |-> NoPodEvent]]
    /\ hist' = [k \in Keys |-> [hist[k] EXCEPT !.pending = FALSE]]
    /\ UNCHANGED <<pods, eips>>
    /\ CStill

NextC ==
    \/ \E k \in Keys : \E a \in Annotations(k) : CCreatePod(k, a)
    \/ \E k \in Keys : CAssignIP(k)
    \/ \E k \in Keys : \E a \in Annotations(k) : CEditPod(k, a)
    \/ \E k \in Keys : CDeletePod(k)
    \/ \E k \in Keys : \E f \in CacheFaults : CacheAddOrUpdate(k, f)
    \/ \E k \in Keys : \E f \in CacheFaults : CacheDelete(k, f)
    \/ CRestart

SpecC == InitC /\ [][NextC]_vars

(***************************************************************************)
(* Properties of the queue and the workers, checked under SpecQ.           *)
(***************************************************************************)
InQueue(k) == k \in Range(wq.queue)

\* testKey is neither queued, nor held by a worker, nor waiting for a retry
Settled(k) == k \notin wq.dirty /\ k \notin wq.processing /\ k \notin wq.waiting

\* C1: no two workers process the same Pod key at the same time, whatever
\* events arrive for the key and whatever retries are pending for it.
C1_OneWorkerPerKey ==
    \A w1 \in Workers : \A w2 \in Workers :
        (w1 # w2 /\ Busy(w1) /\ Busy(w2)) => workers[w1].key # workers[w2].key

\* all workers busy, one of them on a key that was enqueued again meanwhile
\* and has failed attempts behind it
C1_Witness ==
    /\ \A w \in Workers : Busy(w)
    /\ \E w \in Workers :
          /\ workers[w].key \in wq.dirty
          /\ wq.failures[workers[w].key] > 0

\* C7: the handler is called at most 1 + maxQueueRetries times per enqueued
\* event and no key is re-queued more than maxQueueRetries times in a row;
\* when one event was enqueued, every call failed and the key has settled,
\* the handler was called exactly 1 + maxQueueRetries times, the retry count
\* is forgotten, the key is not queued and no retry is pending.
C7_RetriesThenForget ==
    /\ hist.calls <= (1 + maxQueueRetries) * hist.events
    /\ \A k \in Keys : wq.failures[k] <= maxQueueRetries
    /\ (hist.events = 1 /\ hist.allFailed /\ Settled(testKey)) =>
          /\ hist.calls = 1 + maxQueueRetries
          /\ wq.failures[testKey] = 0
          /\ ~InQueue(testKey)

C7_Witness ==
    /\ hist.events = 1
    /\ hist.allFailed
    /\ hist.calls = 1 + maxQueueRetries
    /\ Settled(testKey)
    /\ wq.queue = <<>>

\* an event for testKey whose callback calls queue.Add
EnqueueStep == hist'.events = hist.events + 1

\* C8: a key is in the queue at most once, and an event for a key that is
\* already waiting in the queue leaves the queue as it is.
C8_KeyQueuedOnce ==
    /\ [](\A k \in Keys : Occurrences(wq.queue, k) <= 1)
    /\ [][(EnqueueStep /\ InQueue(testKey)) => wq'.queue = wq.queue]_vars

\* two events enqueued testKey and no worker has taken it yet
C8_Witness ==
    /\ hist.events >= 2
    /\ hist.calls = 0
    /\ testKey \notin wq.processing
    /\ wq.queue = <<testKey>>

\* C9: a key that a worker holds is not in the queue, an event for it leaves
\* the queue unchanged, and when the worker calls Done the key is in the
\* queue exactly once if it was enqueued meanwhile.
C9_DeferredUntilDone ==
    /\ [](\A k \in Keys : k \in wq.processing => ~InQueue(k))
    /\ [][(EnqueueStep /\ testKey \in wq.processing) => wq'.queue = wq.queue]_vars
    /\ [][\A k \in Keys :
            (k \in wq.processing /\ k \notin wq'.processing /\ k \in wq.dirty)
                => Occurrences(wq'.queue, k) = 1]_vars

\* testKey was enqueued again while a worker holds it
C9_Witness ==
    /\ testKey \in wq.processing
    /\ testKey \in wq.dirty
    /\ hist.events >= 2
    /\ wq.queue = <<>>

(***************************************************************************)
(* Properties of the reconciler and the cloud state, checked under Spec.   *)
(***************************************************************************)
\* nothing is queued, held by a worker or waiting for a retry, and the
\* informer has delivered every change
Quiet ==
    /\ wq.queue = <<>>
    /\ wq.waiting = {}
    /\ \A w \in Workers : ~Busy(w)
    /\ indexer = pods

\* the allocated addresses that carry the controller's pod tag for the key
TaggedFor(k) ==
    {id \in EipIds : eips[id].state = "allocated" /\ eips[id].tags.pod = k}

\* those of them that hold an association
AssociatedFor(k) ==
    {id \in TaggedFor(k) : eips[id].tags.cluster = clusterName /\ eips[id].assoc # ""}

\* the Pods whose public-ip label holds the address
LabelledWith(id) == {k \in Keys : pods[k].exists /\ pods[k].labels.pip = id}

\* both Pods ask for an address of pool1 and nobody has edited or deleted them
TwoFixedTagPods ==
    /\ ~ops.edited
    /\ \A k \in Keys : pods[k].exists /\ pods[k].ip # "" /\ pods[k].ann = AnnFixedTag

\* C2: ReleaseAddress is only called on an address whose type tag is auto:
\* a worker about to call it holds an address it allocated for an auto Pod,
\* and no address of the users' pools is ever released.
C2_OnlyAutoReleased ==
    /\ \A w \in Workers :
          workers[w].pc = "releaseAddress" =>
              /\ workers[w].addr.type = PodEIPAnnotationValueAuto
              /\ workers[w].addr.id \in AutoIds
              /\ eips[workers[w].addr.id].tags.type = PodEIPAnnotationValueAuto
    /\ \A id \in EipIds :
          eips[id].state = "released" =>
              \/ eips[id].legacy
              \/ id \in AutoIds /\ eips[id].tags.type = PodEIPAnnotationValueAuto

\* a worker has disassociated an address claimed in fixed-tag mode and goes
\* on to delete its tags, after the recycler has released an address
C2_Witness ==
    /\ \E id \in LegacyIds : eips[id].state = "released"
    /\ \E w \in Workers :
          /\ workers[w].pc = "deleteTag"
          /\ workers[w].addr.id \in PoolIds
          /\ workers[w].addr.type = PodEIPAnnotationValueFixedTag
          /\ eips[workers[w].addr.id].assoc = ""

\* C3: with two fixed-tag Pods on the tag key of address 1, the address is
\* never labelled on both Pods.
C3_NeverLabelledOnBoth ==
    TwoFixedTagPods => Cardinality(LabelledWith(1)) <= 1

\* C4: an address that is associated carries the controller's three tags and
\* its pod tag names the Pod whose IP it is associated with.
C4_AssociatedCarriesTags ==
    \A id \in PoolIds \cup AutoIds :
        (eips[id].state = "allocated" /\ eips[id].assoc # "") =>
            /\ eips[id].tags.type # ""
            /\ eips[id].tags.cluster = clusterName
            /\ eips[id].tags.pod \in Keys
            /\ PodIP(eips[id].tags.pod) = eips[id].assoc

\* the Pod is live, asks for auto and carries the labels of a successful
\* add_or_update for auto; the informer has delivered its last change and
\* its key is neither queued, nor held by a worker, nor waiting for a retry
AutoReconciled(k) ==
    /\ pods[k].exists
    /\ pods[k].ip # ""
    /\ pods[k].ann.type = PodEIPAnnotationValueAuto
    /\ pods[k].labels.type = PodEIPAnnotationValueAuto
    /\ pods[k].labels.pip # 0
    /\ indexer[k] = pods[k]
    /\ Settled(k)

\* C5: a live auto Pod whose add_or_update has succeeded has exactly one
\* address tagged pod = key, cluster-name = C, type = auto; it is associated
\* with the Pod's IP and the Pod's public-ip label holds it.
C5_ExactlyOneAutoAddress ==
    \A k \in Keys : AutoReconciled(k) =>
        LET mine == {id \in TaggedFor(k) :
                        eips[id].tags = PodTags(k, PodEIPAnnotationValueAuto)}
        IN /\ Cardinality(mine) = 1
           /\ \A id \in mine : eips[id].assoc = pods[k].ip /\ pods[k].labels.pip = id

\* C6: when a Pod was deleted and the system has come to rest, no address
\* carries the Pod's key in its pod tag.
C6_DeletedPodLeavesNoAddress ==
    \A k \in Keys :
        (Quiet /\ k \in ops.created /\ ~pods[k].exists) => TaggedFor(k) = {}

\* C10: when the queue is empty and no worker is processing, at most one
\* address tagged for a Pod key holds an association.
C10_AtMostOneAssociated ==
    (wq.queue = <<>> /\ \A w \in Workers : ~Busy(w)) =>
        \A k \in Keys : Cardinality(AssociatedFor(k)) <= 1

\* a Pod's address was replaced: one is released, one is associated
C10_Witness ==
    /\ wq.queue = <<>>
    /\ \A w \in Workers : ~Busy(w)
    /\ \E k \in Keys :
          /\ Cardinality(AssociatedFor(k)) = 1
          /\ \E id \in AutoIds : eips[id].state = "released" /\ eips[id].tags.pod = k

\* C11: when the system is at rest, a live Pod carries the public-ip label
\* exactly when an associated address is tagged with the Pod's key.
C11_LabelIffAssociated ==
    Quiet =>
        \A k \in Keys :
            pods[k].exists => (pods[k].labels.pip # 0 <=> AssociatedFor(k) # {})

\* a recycler scan started now would change no address
ScanChangesNothing ==
    \A id \in UsedAddresses : eips[id].assoc = "" \/ eips[id].assoc \in LiveIPs

\* C12: when the system is at rest and a recycler scan has nothing left to
\* do, every allocated address tagged type = auto for the cluster serves a
\* live Pod that asks for auto: it is associated with that Pod's IP.
C12_NoOrphanAutoAddress ==
    (Quiet /\ ScanChangesNothing) =>
        \A id \in EipIds :
            (/\ Allocated(id)
             /\ eips[id].tags.type = PodEIPAnnotationValueAuto
             /\ eips[id].tags.cluster = clusterName) =>
                \E k \in Keys :
                    /\ eips[id].tags.pod = k
                    /\ pods[k].exists
                    /\ pods[k].ann.type = PodEIPAnnotationValueAuto
                    /\ eips[id].assoc = pods[k].ip

C14_NeverTakesFromLivePod ==
    [][recycler' # recycler =>
          \A id \in EipIds : eips[id].assoc \in LiveIPs => eips'[id] = eips[id]]_vars

\* call i of the log ran to its end
Completed(i) == hist.log[i].stopped = ""

\* calls i and i + 1 are AddOrUpdate with the same Pod object, both
\* successful
SameViewTwice(i) ==
    /\ i + 1 <= Len(hist.log)
    /\ hist.log[i].op = "AddOrUpdate"
    /\ hist.log[i + 1].op = "AddOrUpdate"
    /\ hist.log[i + 1].view = hist.log[i].view
    /\ Completed(i)
    /\ Completed(i + 1)
    /\ hist.log[i].err = ""
    /\ hist.log[i + 1].err = ""

\* C15: a second AddOrUpdate with the same Pod object leaves the cloud and
\* the labels as the first call left them.
C15_SecondCallChangesNothing ==
    \A i \in 1..MaxCalls :
        SameViewTwice(i) =>
            /\ hist.log[i + 1].after = hist.log[i + 1].before
            /\ hist.log[i + 1].labels1 = hist.log[i + 1].labels0

\* call i is an AddOrUpdate that the controller's stop ended after the
\* association and before the label patch; call i + 1 is a successful
\* AddOrUpdate for the unchanged Pod
StoppedBeforePatch(i) ==
    /\ i + 1 <= Len(hist.log)
    /\ hist.log[i].op = "AddOrUpdate"
    /\ hist.log[i].stopped = "addLabels"
    /\ hist.log[i + 1].op = "AddOrUpdate"
    /\ hist.log[i + 1].view = hist.log[i].view
    /\ Completed(i + 1)
    /\ hist.log[i + 1].err = ""

\* C16: the AddOrUpdate that runs after such a stop leaves the cloud as it
\* is and patches the public-ip label.
C16_OnlyPatchesLabel ==
    \A i \in 1..MaxCalls :
        StoppedBeforePatch(i) =>
            /\ hist.log[i + 1].after = hist.log[i + 1].before
            /\ hist.log[i + 1].labels1.pip # 0

\* the key of the Pod the calls of the log are made for
HKey == CHOOSE k \in Keys : k \in ops.created

\* what the cloud shows of an address: nothing once it is released
Shown(a) == IF a.state = "allocated" THEN [tags |-> a.tags, assoc |-> a.assoc]
            ELSE [tags |-> NoTags, assoc |-> "gone"]

CloudOf(c) == [id \in EipIds |-> Shown(c[id])]

\* the addresses of cloud c that are associated and tagged for key k
OwnedIn(c, k) ==
    {id \in EipIds : /\ c[id].state = "allocated"
                     /\ c[id].tags.pod = k
                     /\ c[id].tags.cluster = clusterName
                     /\ c[id].assoc # ""}

\* call i is a successful AddOrUpdate and call i + 1 a successful Delete
AddThenDelete(i) ==
    /\ i + 1 <= Len(hist.log)
    /\ hist.log[i].op = "AddOrUpdate"
    /\ hist.log[i + 1].op = "Delete"
    /\ Completed(i)
    /\ Completed(i + 1)
    /\ hist.log[i].err = ""
    /\ hist.log[i + 1].err = ""

\* the cloud after call i + 1 is the cloud before call i for an auto Pod;
\* the address a fixed Pod claimed in call i is allocated, unassociated and
\* without controller tags after call i + 1
RoundTrip(i) ==
    LET add == hist.log[i]
        del == hist.log[i + 1]
    IN /\ add.view.ann.type = PodEIPAnnotationValueAuto =>
              CloudOf(del.after) = CloudOf(add.before)
       /\ add.view.ann.type \in {PodEIPAnnotationValueFixedTag,
                                  PodEIPAnnotationValueFixedTagValue} =>
              \A id \in OwnedIn(add.after, HKey) :
                  /\ del.after[id].state = "allocated"
                  /\ del.after[id].assoc = ""
                  /\ del.after[id].tags = NoTags

\* C17 as stated: a successful AddOrUpdate followed by a successful Delete
\* returns the cloud to its state before the AddOrUpdate.
C17_AddThenDeleteRestores ==
    \A i \in 1..MaxCalls : AddThenDelete(i) => RoundTrip(i)

\* C17, amended: a successful AddOrUpdate followed by a successful Delete
\* returns the cloud to its state before the AddOrUpdate when the key had no
\* associated address before the AddOrUpdate.
C17_AddThenDeleteRestoresFromNone ==
    \A i \in 1..MaxCalls :
        AddThenDelete(i) /\ OwnedIn(hist.log[i].before, HKey) = {} => RoundTrip(i)

\* an auto Pod without address got one in AddOrUpdate and lost it in Delete
C17_Witness ==
    \E i \in 1..MaxCalls :
        /\ AddThenDelete(i)
        /\ OwnedIn(hist.log[i].before, HKey) = {}
        /\ hist.log[i].view.ann.type = PodEIPAnnotationValueAuto
        /\ OwnedIn(hist.log[i].after, HKey) # {}
        /\ hist.log[i + 1].after # hist.log[i + 1].before

\* call i is a successful Delete
DeleteDone(i) ==
    /\ i <= Len(hist.log)
    /\ hist.log[i].op = "Delete"
    /\ Completed(i)
    /\ hist.log[i].err = ""

WithoutValidType(i) ==
    /\ i <= Len(hist.log)
    /\ hist.log[i].op = "AddOrUpdate"
    /\ hist.log[i].view.ip # ""
    /\ ~ValidPECType(hist.log[i].view.ann.type)

NothingGained(c1, c2) ==
    \A id \in EipIds :
        /\ c2[id].state = "allocated" => c1[id].state = "allocated"
        /\ c2[id].tags \in {c1[id].tags, NoTags}
        /\ c2[id].assoc \in {c1[id].assoc, ""}

\* labels l2 hold nothing that labels l1 do not hold
NoLabelAdded(l1, l2) ==
    /\ l2.type \in {l1.type, ""}
    /\ l2.pip \in {l1.pip, 0}
    /\ l2.pool \in {l1.pool, ""}
    /\ l2.tag \in {l1.tag, ""}
    /\ l2.tagv \in {l1.tagv, ""}

WithoutIP(i) ==
    /\ i <= Len(hist.log)
    /\ hist.log[i].op = "AddOrUpdate"
    /\ hist.log[i].view.ip = ""

\* C20: AddOrUpdate for a Pod without IP returns success at once, before any
\* cloud call and any label patch, and leaves the cloud and the labels as
\* they are.
C20_NoIPReturnsAtOnce ==
    /\ (hist.cur.op = "AddOrUpdate" /\ hist.cur.view.ip = "") =>
           /\ workers[Caller].pc = "result"
           /\ workers[Caller].err = ""
           /\ eips = hist.cur.before
           /\ pods[workers[Caller].key].labels = hist.cur.labels0
    /\ \A i \in 1..MaxCalls :
           WithoutIP(i) =>
               /\ Completed(i)
               /\ hist.log[i].err = ""
               /\ hist.log[i].after = hist.log[i].before
               /\ hist.log[i].labels1 = hist.log[i].labels0

\* a Pod with the auto annotation and without IP was handed to AddOrUpdate
C20_Witness ==
    \E i \in 1..MaxCalls :
        /\ WithoutIP(i)
        /\ hist.log[i].view.ann.type = PodEIPAnnotationValueAuto
        /\ hist.log[i].view.labels = NoLabels
        /\ Completed(i)

(***************************************************************************)
(* Properties of the informer's callbacks and of the run loop, checked     *)
(* under SpecE.                                                            *)
(***************************************************************************)
\* the step is an event for k
EventStep(k) == hist'.events = hist.events + 1 /\ hist'.key = k

\* the step is an Add event for k: the index receives the Pod
AddEventStep(k) == EventStep(k) /\ ~indexer[k].exists /\ indexer'[k].exists

\* C21: an Add event calls queue.Add for the Pod's key if and only if the
\* Pod's type annotation is auto, fixed-tag or fixed-tag-value and the Pod
\* has an IP.
C21_AddEnqueuesValidTypeWithIP ==
    [][\A k \in Keys :
          AddEventStep(k) =>
              wq' = IF ValidPECType(indexer'[k].ann.type) /\ indexer'[k].ip # ""
                    THEN Add(wq, k) ELSE wq]_vars

\* the step is an Update event for k: the index holds the Pod and receives
\* the new object
UpdateEventStep(k) == EventStep(k) /\ indexer[k].exists /\ indexer'[k].exists

\* C22: an Update event calls queue.Add for the Pod's key if and only if the
\* new object has an IP, whatever its annotations are and whether or not it
\* differs from the old object.
C22_UpdateEnqueuesWithIP ==
    [][\A k \in Keys :
          UpdateEventStep(k) => wq' = IF indexer'[k].ip # "" THEN Add(wq, k) ELSE wq]_vars

\* the update of a Pod without annotation, with the object the index holds
\* already, has put the key in the queue
C22_Witness ==
    /\ hist.event[testKey].kind = "resync"
    /\ hist.event[testKey].obj.ann = AnnNone
    /\ wq.queue = <<testKey>>

\* the step is a Delete event for k: the index loses the Pod
DeleteEventStep(k) == EventStep(k) /\ indexer[k].exists /\ ~indexer'[k].exists

\* C23: every Delete event calls queue.Add for the Pod's key, whatever the
\* Pod's annotation and IP are, and the key is then marked for processing.
C23_DeleteAlwaysEnqueues ==
    [][\A k \in Keys :
          DeleteEventStep(k) => wq' = Add(wq, k) /\ k \in wq'.dirty]_vars

\* the deletion of a Pod without annotation and without IP has put the key
\* in the queue
C23_Witness ==
    /\ hist.event[testKey].kind = "delete"
    /\ hist.event[testKey].obj.ann = AnnNone
    /\ hist.event[testKey].obj.ip = ""
    /\ ~indexer[testKey].exists
    /\ wq.queue = <<testKey>>

\* worker w calls the handler in this step
HandlerCallStep(w) == workers[w].pc = "processItem" /\ workers'[w].pc = "result"

\* C24: the worker calls Delete exactly when the key is not in the index at
\* the time of the call, and AddOrUpdate with the Pod the index holds
\* otherwise, whatever event put the key in the queue.
C24_DeleteIffAbsentFromIndex ==
    [][\A w \in Workers :
          HandlerCallStep(w) =>
              LET key == workers[w].key IN
              /\ workers'[w].op = "Delete" <=> ~indexer[key].exists
              /\ workers'[w].op = "AddOrUpdate" <=> indexer[key].exists
              /\ indexer[key].exists => workers'[w].view = indexer[key]]_vars

\* a Delete event put the key in the queue, the Pod came back without IP
\* before a worker took the key, and the worker called AddOrUpdate with it
C24_Witness ==
    \E w \in Workers :
        /\ workers[w].pc = "result"
        /\ workers[w].key = testKey
        /\ hist.event[testKey].kind = "delete"
        /\ workers[w].op = "AddOrUpdate"
        /\ workers[w].view = indexer[testKey]
        /\ workers[w].view.ip = ""

(***************************************************************************)
(* Properties of the fixed-tag pool, checked under SpecT and SpecTFair.    *)
(***************************************************************************)
\* the handler returned to the worker because every address that carries
\* the Pod's tag key is associated
ClaimFailedNoFree(k) ==
    \E w \in Workers :
        /\ workers[w].pc = "result"
        /\ workers[w].key = k
        /\ workers[w].err = "no address found for tag key and not attached"

FreeTagged(tagKey) == \E id \in TagKeyAddresses(tagKey) : eips[id].assoc = ""

WantsFixedTag(k) ==
    /\ pods[k].exists
    /\ pods[k].ip # ""
    /\ pods[k].ann.type = PodEIPAnnotationValueFixedTag

AssociatedTo(k) ==
    \E id \in EipIds :
        Allocated(id) /\ eips[id].tags.pod = k /\ eips[id].assoc = PodIP(k)

\* C25: a fixed-tag Pod whose claim failed because every address with its
\* tag key was associated gets an address once an address with the tag key
\* stays free, when the informer, the queue and the workers are scheduled
\* fairly.
C25_FreedAddressIsPickedUp ==
    \A k \in Keys :
        [](ClaimFailedNoFree(k) =>
              [](WantsFixedTag(k) /\ FreeTagged(pods[k].ann.tag) =>
                    <>(\/ AssociatedTo(k)
                       \/ ~WantsFixedTag(k)
                       \/ ~FreeTagged(pods[k].ann.tag))))

\* the Pod's claim failed, the key left the queue for good and the address
\* is free now
C25_FreeAfterGivingUp ==
    \E k \in Keys :
        /\ WantsFixedTag(k)
        /\ FreeTagged(pods[k].ann.tag)
        /\ ~AssociatedTo(k)
        /\ wq.failures[k] = 0
        /\ k \notin wq.dirty \cup wq.processing \cup wq.waiting
        /\ \A w \in Workers : ~Busy(w)
        /\ \A j \in Keys : indexer[j] = pods[j]

(***************************************************************************)
(* Properties of the key-lock registry, checked under SpecK.               *)
(***************************************************************************)
\* Lock(key) has returned to the goroutine and its Unlock(key) has not run
Locked(w, key) ==
    /\ workers[w].key = key
    /\ workers[w].pc \in {"getTagAddress", "createTag", "associateAddress", "Unlock"}

\* C26: for every key at most one goroutine is between a returned Lock and
\* its Unlock, one mutex at most is ever created for a key, and so the
\* claim, tag and associate steps of two calls with the same tag key do
\* not interleave.
C26_OneHolderPerKey ==
    \A key \in LockKeys :
        /\ Cardinality({w \in LockCallers : Locked(w, key)}) <= 1
        /\ hist.created[key] <= 1
        /\ \A w \in LockCallers :
              Locked(w, key) => keyLocks.mutex[keyLocks.locks[key]] = w

\* two goroutines raced on the first use of a key: both found no mutex,
\* one created it and holds it, the other found it under the guard and
\* waits for it
C26_Witness ==
    \E key \in LockKeys : \E w1, w2 \in LockCallers :
        /\ Locked(w1, key)
        /\ workers[w1].pc = "associateAddress"
        /\ workers[w2].key = key
        /\ workers[w2].pc = "mutexLock"
        /\ workers[w2].deferred
        /\ workers[w2].calls = 1
        /\ workers[w1].calls = 1
        /\ hist.created[key] = 1

(***************************************************************************)
(* Properties of main with leader election, checked under SpecM.           *)
(***************************************************************************)
\* C27: a process that lost the leader lease has exited with a non-zero
\* exit code.
C27_LostLeaseExitsNonZero ==
    \A r \in Replicas :
        ops.proc[r].pc = "exited" /\ hist[r] = "stop leading" => ops.proc[r].code # 0

(***************************************************************************)
(* Properties of the handler with the event cache, checked under SpecC.    *)
(***************************************************************************)
\* Handler.Delete returns without error for key k in this step
DeleteReturns(k) == hist[k].pending /\ ~hist'[k].pending /\ ~pods[k].exists /\ ops'.restarts = ops.restarts

\* C28: Delete leaves the address of a Pod that carried reclaim = false
\* when it was deleted as it is, whenever the annotation was set and
\* whether or not the controller has restarted.
C28_ReclaimFalseKeepsAddress ==
    [][\A k \in Keys :
          DeleteReturns(k) /\ hist[k].carried.reclaim = PodEIPReclaimAnnotationVal
              => eips'[k] = eips[k]]_vars

\* the same without restart and without failed call
C28_ReclaimFalseKeepsAddressNoRestart ==
    [][\A k \in Keys :
          /\ DeleteReturns(k)
          /\ hist[k].carried.reclaim = PodEIPReclaimAnnotationVal
          /\ ops.restarts = 0
          /\ ops.faults = 0
          => eips'[k] = eips[k]]_vars

\* C29: the event of a Pod annotated mode = fixed has reclamation disabled
\* whatever its reclaim annotation is, and reclamation is enabled only for
\* an event with neither reclaim = false nor mode = fixed.
C29_ModeFixedDisablesReclaim ==
    \A k \in Keys :
        LET event == ops.cacheEventMap[k] IN
        event.present =>
            /\ event.ann.mode = PodEIPModeAnnotationVal => IsEIPReclaimDisabled(event)
            /\ ~IsEIPReclaimDisabled(event) =>
                  /\ event.ann.reclaim # PodEIPReclaimAnnotationVal
                  /\ event.ann.mode # PodEIPModeAnnotationVal

\* C30: once the queue is shut down and empty the worker exits: the Get
\* that reports the shutdown is followed by no call of the indexer or the
\* handler, run returns only when no item is in process, and it does
\* return when the goroutines are scheduled.
C30_WorkerExitsAfterShutDown ==
    /\ [][ops.run = "get" /\ ops'.run # "get" =>
             /\ wq.shuttingDown
             /\ QLen(wq) = 0
             /\ workers' = workers
             /\ wq' = wq]_vars
    /\ [][ops.run # "get" => workers' = workers \/ \E w \in Workers :
             Busy(w) /\ workers'[w].pc # "processItem"]_vars
    /\ [](ops.run = "returned" => \A w \in Workers : ~Busy(w))
    /\ (wq.shuttingDown /\ QLen(wq) = 0) ~> (ops.run = "returned")

\* the queue is shut down and empty, run waits, and an item is in process
C30_Witness ==
    /\ wq.shuttingDown
    /\ QLen(wq) = 0
    /\ ops.run = "wait"
    /\ \E w \in Workers : workers[w].pc = "processItem"

(***************************************************************************)
(* Properties of the reconciler's steps, checked under SpecT, Spec and     *)
(* SpecH.                                                                  *)
(***************************************************************************)
\* worker w makes the disassociate, release or delete-tags call of
\* EC2Client.DisassociateAddress in this step and the call changes
\* address id
ReclaimWrites(w, id) ==
    /\ workers[w].pc \in {"disassociateAddress", "releaseAddress", "deleteTag"}
    /\ workers'[w].pc # workers[w].pc
    /\ eips'[id] # eips[id]

\* C31: Delete and the disassociate step of AddOrUpdate for a Pod key never
\* disassociate, untag or release an address that carries the pod tag of
\* another Pod key, however the calls interleave with the other Pod's
\* fixed-tag claim.
C31_ReclaimTouchesOwnAddressOnly ==
    [][\A w \in Workers : \A id \in EipIds :
          ReclaimWrites(w, id) => eips[id].tags.pod \in {"", workers[w].key}]_vars

\* what the annotations ask for in the build with the event cache: an
\* address or none, and a fixed one or any
AddressAskedFor(ann) ==
    [eip |-> ann.type = PodEIPAnnotationValue,
     fixed |-> ann.type = PodEIPAnnotationValue /\ ann.mode = PodEIPModeAnnotationVal]

\* C32: when the annotations of a reconciled Pod ask for something else
\* than they did at its last reconciliation, the next AddOrUpdate does not
\* return at once: it returns at once only when they ask for the same.
C32_ChangedStateIsReconciled ==
    \A k \in Keys :
        /\ pods[k].exists
        /\ pods[k].ip # ""
        /\ ops.cacheEventMap[k].present
        /\ AddressAskedFor(pods[k].ann) # AddressAskedFor(ops.cacheEventMap[k].ann)
        => ~sameStatusInCache(k, NewPodEvent(pods[k]))

\* where a worker is in Handler.DisassociateAddress and in
\* EC2Client.AssociateAddress after the interface lookup
DisassociatePcs ==
    {"describePodAddresses", "disassociateAddress", "releaseAddress", "deleteTag",
     "removeLabels"}

AcquirePcs ==
    {"allocateAddress", "keyLocksLock", "getTagAddress", "getTagValueAddress",
     "createTag", "associateAddress"}

\* the disassociation step of the running call returns an error
DisassociateFails ==
    /\ workers[Caller].pc \in DisassociatePcs
    /\ workers'[Caller].pc = "result"
    /\ workers'[Caller].err # ""

\* C33: in AddOrUpdate no address is allocated, claimed or tagged for the
\* key while an address tagged for the key is associated; a call whose
\* disassociation step fails acquires nothing; and a key never holds two
\* associated addresses.
C33_DisassociateBeforeAcquire ==
    /\ [](workers[Caller].pc \in AcquirePcs => PodAddresses(workers[Caller].key) = {})
    /\ [][DisassociateFails => NothingGained(hist.cur.before, eips')]_vars
    /\ [](\A k \in Keys : Cardinality(OwnedIn(eips, k)) <= 1)

\* an AddOrUpdate for a Pod that held an address failed in its
\* disassociate call and returned
C33_Witness ==
    \E i \in 1..MaxCalls :
        /\ i <= Len(hist.log)
        /\ hist.log[i].op = "AddOrUpdate"
        /\ ValidPECType(hist.log[i].view.ann.type)
        /\ hist.log[i].err = "disassociate address"
        /\ OwnedIn(hist.log[i].before, HKey) # {}
        /\ hist.log[i].after = hist.log[i].before

InDelete == hist.cur.op = "Delete"

\* the address the running call described
Described == workers[Caller].addr

\* a step that releases address id or changes its tags
ReleasesOrUntags(id) ==
    \/ eips'[id].state # eips[id].state
    \/ eips'[id].tags # eips[id].tags

\* C34: in Delete an address is released or untagged only by the release or
\* delete-tags call, which is reached only from a disassociate call that
\* succeeded and finds the address disassociated; a Delete whose
\* disassociate call fails changes nothing in the cloud and returns the
\* error.
C34_DisassociateBeforeRelease ==
    /\ [][InDelete =>
            \A id \in EipIds :
                ReleasesOrUntags(id) =>
                    /\ workers[Caller].pc \in {"releaseAddress", "deleteTag"}
                    /\ id = Described.id
                    /\ eips[id].assoc = ""]_vars
    /\ [][/\ InDelete
          /\ workers'[Caller].pc \in {"releaseAddress", "deleteTag"}
          /\ workers'[Caller].pc # workers[Caller].pc
          => /\ workers[Caller].pc = "disassociateAddress"
             /\ eips[Described.id].assoc # ""
             /\ eips'[Described.id].assoc = ""]_vars
    /\ [](\A i \in 1..MaxCalls :
              /\ i <= Len(hist.log)
              /\ hist.log[i].op = "Delete"
              /\ hist.log[i].err = "disassociate address"
              => hist.log[i].after = hist.log[i].before)

\* a Delete for a key that held an address failed in its disassociate call
\* and returned the error
C34_Witness ==
    \E i \in 1..MaxCalls :
        /\ i <= Len(hist.log)
        /\ hist.log[i].op = "Delete"
        /\ Completed(i)
        /\ hist.log[i].err = "disassociate address"
        /\ OwnedIn(hist.log[i].before, HKey) # {}

\* call i is an AddOrUpdate handed the running Pod
WithIP(i) ==
    /\ hist.log[i].op = "AddOrUpdate"
    /\ hist.log[i].view.exists
    /\ hist.log[i].view.ip # ""

\* call i is handed the running Pod with the labels it has
FreshView(i) ==
    /\ WithIP(i)
    /\ hist.log[i].view.labels = hist.log[i].labels0

\* call i returned without an error
Succeeded(i) == Completed(i) /\ hist.log[i].err = ""

\* call i wrote nothing to the cloud and patched no label
NoWrite(i) ==
    /\ hist.log[i].after = hist.log[i].before
    /\ hist.log[i].labels1 = hist.log[i].labels0

\* C35: with the annotations unchanged, the AddOrUpdate that follows a
\* successful AddOrUpdate and is handed the Pod with the labels of that call
\* writes nothing to the cloud and patches no label, and so does every
\* AddOrUpdate after the successful handling of that Pod object, whatever
\* object the first call was handed.
C35_SteadyPodIsLeftAlone ==
    \A i \in 1..MaxCalls :
        /\ (/\ i + 1 <= Len(hist.log)
            /\ FreshView(i) /\ Succeeded(i)
            /\ FreshView(i + 1)
            /\ hist.log[i + 1].view.ann = hist.log[i].view.ann
            => NoWrite(i + 1))
        /\ (/\ i + 2 <= Len(hist.log)
            /\ WithIP(i) /\ Succeeded(i)
            /\ FreshView(i + 1) /\ Succeeded(i + 1)
            /\ FreshView(i + 2)
            /\ hist.log[i + 1].view.ann = hist.log[i].view.ann
            /\ hist.log[i + 2].view.ann = hist.log[i].view.ann
            => NoWrite(i + 2))

\* a Pod annotated auto was given an address and its labels, and the next
\* two calls were handed the labelled Pod
C35_Witness ==
    /\ Len(hist.log) = 3
    /\ FreshView(1) /\ Succeeded(1)
    /\ hist.log[1].view.ann.type = PodEIPAnnotationValueAuto
    /\ hist.log[1].labels1.pip # 0
    /\ hist.log[1].labels1 # hist.log[1].labels0
    /\ FreshView(2) /\ Succeeded(2)
    /\ FreshView(3) /\ Succeeded(3)
    /\ hist.log[2].view.labels = hist.log[1].labels1
    /\ hist.log[3].view.labels = hist.log[1].labels1

(***************************************************************************)
(* Properties of the retry count, checked under SpecQ.                     *)
(***************************************************************************)
\* worker w handles the handler's result
ResultStep(w) == workers[w].pc = "result" /\ workers'[w].pc = "done"

\* the attempt of worker w succeeded or was the last one allowed
SucceededOrAtCap(w) ==
    \/ workers[w].err = ""
    \/ workers[w].retries >= maxQueueRetries

\* C36: the retry count of a key never exceeds maxQueueRetries; the count a
\* worker read is the key's count until the worker handles the result; and
\* the count is 0 after an attempt that succeeded or was made at the limit,
\* and one more after any other attempt.
C36_RetryCountBounded ==
    /\ [](\A k \in Keys : NumRequeues(wq, k) \in 0..maxQueueRetries)
    /\ [](\A w \in Workers :
              workers[w].pc \in {"processItem", "result"}
                  => workers[w].retries = NumRequeues(wq, workers[w].key))
    /\ [][\A w \in Workers :
              ResultStep(w) =>
                  NumRequeues(wq', workers[w].key) =
                      IF SucceededOrAtCap(w) THEN 0
                      ELSE NumRequeues(wq, workers[w].key) + 1]_vars

\* a worker has handled the failure of an attempt made at the limit, and the
\* count of its key is 0
C36_Witness ==
    \E w \in Workers :
        /\ workers[w].pc = "done"
        /\ workers[w].err # ""
        /\ workers[w].retries = maxQueueRetries
        /\ NumRequeues(wq, workers[w].key) = 0

(***************************************************************************)
(* Properties of the interface lookup, checked under SpecH.                *)
(***************************************************************************)
\* the step is the interface lookup of the running call, and it fails
LookupFails ==
    /\ workers[Caller].pc = "getNetworkInterface"
    /\ ops'.faults > ops.faults

\* the running call enters its first address-acquiring call
EntersAcquire ==
    /\ workers'[Caller].pc \in AcquirePcs
    /\ workers[Caller].pc \notin AcquirePcs

\* C37: a failed interface lookup ends the call with an error and without a
\* write to the cloud; the address-acquiring calls are entered only from a
\* lookup that found the interface; and a call that returned the lookup's
\* error has gained no address, no tag and no association and has added no
\* label.
C37_LookupBeforeAcquire ==
    /\ [][LookupFails =>
              /\ workers'[Caller].pc = "result"
              /\ workers'[Caller].err = "describe-network-interfaces"
              /\ eips' = eips]_vars
    /\ [][EntersAcquire =>
              /\ workers[Caller].pc = "getNetworkInterface"
              /\ ops'.faults = ops.faults
              /\ eips' = eips]_vars
    /\ [](\A i \in 1..MaxCalls :
              /\ i <= Len(hist.log)
              /\ hist.log[i].err = "describe-network-interfaces"
              => /\ NothingGained(hist.log[i].before, hist.log[i].after)
                 /\ NoLabelAdded(hist.log[i].labels0, hist.log[i].labels1))

\* an AddOrUpdate for a running Pod annotated with a valid type returned
\* the lookup's error
C37_Witness ==
    \E i \in 1..MaxCalls :
        /\ i <= Len(hist.log)
        /\ WithIP(i)
        /\ ValidPECType(hist.log[i].view.ann.type)
        /\ Completed(i)
        /\ hist.log[i].err = "describe-network-interfaces"

(***************************************************************************)
(* Properties of the key-lock registry's waits, checked under SpecK and    *)
(* SpecKFair.                                                              *)
(***************************************************************************)
\* goroutine w is in Lock and cannot take its next step before goroutine g
\* has taken one
WaitsFor(w, g) ==
    /\ w # g
    /\ \/ workers[w].pc = "syncLock" /\ keyLocks.syncLock = g
       \/ workers[w].pc = "mutexLock" /\ keyLocks.mutex[workers[w].lock] = g

\* goroutine h has returned from Lock for its key and has not unlocked it
Holds(h) == Locked(h, workers[h].key)

\* C38: no goroutine in Lock(k1) waits, directly or behind the goroutine
\* that holds the registry's guard, for the goroutine holding the mutex of
\* another key.
C38_NoWaitAcrossKeys ==
    \A w, h \in LockCallers :
        (Holds(h) /\ workers[h].key # workers[w].key) =>
            /\ ~WaitsFor(w, h)
            /\ \A g \in LockCallers : ~(WaitsFor(w, g) /\ WaitsFor(g, h))

\* goroutine w is inside Lock
InLock(w) == workers[w].pc \in {"Load", "syncLock", "LoadAgain", "mutexLock", "syncUnlock"}

\* C39: every call of Lock returns, and no reachable state has every
\* goroutine that is inside AssociateAddress blocked.
C39_LockReturns ==
    /\ \A w \in LockCallers : InLock(w) ~> (workers[w].pc = "getTagAddress")
    /\ []((\E w \in LockCallers : workers[w].pc # "idle")
             => \E w \in LockCallers : ENABLED KStepsOf(w))

\* three goroutines in their first calls: one holds a key, one waits for
\* that key's mutex with the guard held, one waits for the guard with
\* another key
C39_Witness ==
    \E w1, w2, w3 \in LockCallers :
        /\ Holds(w1)
        /\ workers[w2].key = workers[w1].key
        /\ workers[w2].pc = "mutexLock" /\ workers[w2].deferred
        /\ workers[w3].pc = "syncLock"
        /\ workers[w3].key # workers[w1].key
        /\ keyLocks.locks[workers[w3].key] = 0

====
